---- MODULE Spec2Model ----
(***************************************************************************)
(* A model of the ChessMaster / woke-chess engine core: the Board (FEN,    *)
(* make/unmake, move generation, legality, SEE, repetition), the           *)
(* transposition table, the aspiration loop and the search control flow.  *)
(*                                                                         *)
(* Bitboards are modelled as sets of squares 0..63, Zobrist hashes as the  *)
(* set of keys XORed in (XOR is symmetric difference: the key tables are   *)
(* treated as linearly independent), FEN strings as sequences of one-      *)
(* character strings.                                                      *)
(***************************************************************************)
EXTENDS Integers, Sequences, FiniteSets, TLC

(***************************************************************************)
(* Defs.h : Color, PieceType, Piece, File, Rank, Direction, Square, Castle *)
(***************************************************************************)
BLACK == 0
WHITE == 1
Colors == {BLACK, WHITE}
getOpposite(color) == IF color = WHITE THEN BLACK ELSE WHITE

PT_NONE == 0
PAWN == 1
KNIGHT == 2
BISHOP == 3
ROOK == 4
QUEEN == 5
KING == 6

NONE == 0
Piece(color, pt) == color + 2 * pt
getColor(piece) == piece % 2
getType(piece) == piece \div 2
Pieces == 2..13

fromFENChar(ch) ==
  CASE ch = "P" -> Piece(WHITE, PAWN)
    [] ch = "N" -> Piece(WHITE, KNIGHT)
    [] ch = "B" -> Piece(WHITE, BISHOP)
    [] ch = "R" -> Piece(WHITE, ROOK)
    [] ch = "Q" -> Piece(WHITE, QUEEN)
    [] ch = "K" -> Piece(WHITE, KING)
    [] ch = "p" -> Piece(BLACK, PAWN)
    [] ch = "n" -> Piece(BLACK, KNIGHT)
    [] ch = "b" -> Piece(BLACK, BISHOP)
    [] ch = "r" -> Piece(BLACK, ROOK)
    [] ch = "q" -> Piece(BLACK, QUEEN)
    [] ch = "k" -> Piece(BLACK, KING)
    [] OTHER -> NONE

pieceToChar(piece) == <<" ", "p", "P", "n", "N", "b", "B", "r", "R", "q", "Q", "k", "K", " ">>[piece]

Squares == 0..63
NO_POS == 65
Square(file, rank) == file + 8 * rank
getRank(sq) == sq \div 8
getFile(sq) == sq % 8
makeRelativeRank(color, rank) == IF color = WHITE THEN rank ELSE 7 - rank
makeRelativeSquare(color, sq) == IF color = WHITE THEN sq ELSE Square(getFile(sq), 7 - getRank(sq))
Abs(x) == IF x < 0 THEN -x ELSE x
Max(x, y) == IF x > y THEN x ELSE y
Min(x, y) == IF x < y THEN x ELSE y
distance(a, b) == Max(Abs(getRank(a) - getRank(b)), Abs(getFile(a) - getFile(b)))

A1 == 0
C1 == 2
D1 == 3
E1 == 4
F1 == 5
G1 == 6
H1 == 7

FileChars == <<"a", "b", "c", "d", "e", "f", "g", "h">>
RankChars == <<"1", "2", "3", "4", "5", "6", "7", "8">>
Digits == <<"0", "1", "2", "3", "4", "5", "6", "7", "8", "9">>
isDigit(ch) == \E k \in 1..10 : Digits[k] = ch
digitValue(ch) == (CHOOSE k \in 1..10 : Digits[k] = ch) - 1
fileFromFENChar(ch) == (CHOOSE k \in 1..8 : FileChars[k] = ch) - 1
rankFromFENChar(ch) == (CHOOSE k \in 1..8 : RankChars[k] = ch) - 1
fromChars(f, r) == Square(fileFromFENChar(f), rankFromFENChar(r))
squareToString(sq) == <<FileChars[getFile(sq) + 1], RankChars[getRank(sq) + 1]>>

UP == 0
LEFT == 1
UPLEFT == 2
UPRIGHT == 3
DOWNLEFT == 4
DOWNRIGHT == 5
RIGHT == 6
DOWN == 7
Directions == 0..7
getOppositeDir(dir) == 7 - dir

QUEEN_CASTLE == 0
KING_CASTLE == 1
BOTH_CASTLE == 2
CASTLE_DONE == 3

\* u8 bit operations on the castle-rights byte
RECURSIVE bitAnd(_, _)
bitAnd(x, y) ==
  IF x = 0 \/ y = 0 THEN 0
  ELSE (x % 2) * (y % 2) + 2 * bitAnd(x \div 2, y \div 2)
bitOr(x, y) == x + y - bitAnd(x, y)
bitNot8(x) == 255 - x

castleChange ==
  <<4, 0, 0, 0, 12, 0, 0, 8,
    0, 0, 0, 0, 0, 0, 0, 0,
    0, 0, 0, 0, 0, 0, 0, 0,
    0, 0, 0, 0, 0, 0, 0, 0,
    0, 0, 0, 0, 0, 0, 0, 0,
    0, 0, 0, 0, 0, 0, 0, 0,
    0, 0, 0, 0, 0, 0, 0, 0,
    1, 0, 0, 0, 3, 0, 0, 2>>
getCastleChangeMask(sq) == bitNot8(castleChange[sq + 1])
getBitMaskFor(castle, color) ==
  <<<<1, 2, 3, 16>>, <<4, 8, 12, 32>>>>[color + 1][castle + 1]
hasCastleRight(rights, castle, color) ==
  bitAnd(rights, getBitMaskFor(castle, color)) = getBitMaskFor(castle, color)
hasAnyCastleRight(rights) ==
  bitAnd(rights, bitOr(getBitMaskFor(BOTH_CASTLE, BLACK), getBitMaskFor(BOTH_CASTLE, WHITE))) # 0
bitMaskFromFENChar(ch) ==
  CASE ch = "K" -> getBitMaskFor(KING_CASTLE, WHITE)
    [] ch = "Q" -> getBitMaskFor(QUEEN_CASTLE, WHITE)
    [] ch = "k" -> getBitMaskFor(KING_CASTLE, BLACK)
    [] ch = "q" -> getBitMaskFor(QUEEN_CASTLE, BLACK)
    [] OTHER -> 0
castleToFENChar(castle, color) ==
  <<<<"q", "k", " ", " ">>, <<"Q", "K", " ", " ">>>>[color + 1][castle + 1]

(***************************************************************************)
(* Move.h : 16-bit packed move                                             *)
(***************************************************************************)
SIMPLE == 0
PROMOTION == 1
ENPASSANT == 2
CASTLE == 3

\* the bitwise or of two numbers of two bits
or2(x, y) ==
  (IF x % 2 = 1 \/ y % 2 = 1 THEN 1 ELSE 0) + 2 * (IF x \div 2 = 1 \/ y \div 2 = 1 THEN 1 ELSE 0)

\* u32(from) | (u32(to) << 6) | (u32(promotedPiece - KNIGHT) << 12) | (u32(mt) << 14), of
\* which m_data keeps the low 16 bits: a promotedPiece outside KNIGHT..QUEEN reaches into
\* the bits of the move type
Move(from, to, mt, promotedPiece) ==
  from + 64 * to + 4096 * ((promotedPiece - KNIGHT) % 4)
       + 16384 * or2(((promotedPiece - KNIGHT) % 16) \div 4, mt)
nullMove == 0
getFrom(m) == m % 64
getTo(m) == (m \div 64) % 64
getPromotedPiece(m) == ((m \div 4096) % 4) + KNIGHT
getMoveType(m) == (m \div 16384) % 4

(***************************************************************************)
(* BitBoard.h / BitBoard.cpp                                               *)
(***************************************************************************)
EMPTY == {}
fromFile(file) == {sq \in Squares : getFile(sq) = file}
fromRank(rank) == {sq \in Squares : getRank(sq) = rank}
fromSquare(sq) == {sq}
b_xor(a, b) == (a \ b) \cup (b \ a)
lsb(bb) == CHOOSE sq \in bb : \A t \in bb : sq <= t
hasMoreThanOne(bb) == Cardinality(bb) > 1

dirDelta == <<8, -1, 7, 9, -9, -7, 1, -8>>
\* the file a shifted bitboard is clipped from (8: no clipping)
dirClip == <<8, 7, 7, 0, 7, 0, 0, 8>>
shift(bb, dir) ==
  {t \in {sq + dirDelta[dir + 1] : sq \in bb} :
      t \in Squares /\ getFile(t) # dirClip[dir + 1]}
shiftSq(sq, dir) == sq + dirDelta[dir + 1]

pawnAttackedSquares(bb, Side) ==
  IF Side = WHITE THEN shift(bb, UPLEFT) \cup shift(bb, UPRIGHT)
  ELSE shift(bb, DOWNLEFT) \cup shift(bb, DOWNRIGHT)

\* the file step of a direction
dirFile == <<0, -1, -1, 1, -1, 1, 1, 0>>
s_directionBits ==
  [i \in Squares |-> [dir \in Directions |->
    {j \in Squares : \E k \in 1..7 : /\ j = i + k * dirDelta[dir + 1]
                                     /\ getFile(i) + k * dirFile[dir + 1] \in 0..7}]]

s_betweenBits ==
  [i \in Squares |-> [to \in Squares |->
    UNION {(IF to \in bits[1] THEN bits[1] \ bits[2] ELSE {}) \cup {to} :
             bits \in {<<s_directionBits[i][dir], s_directionBits[to][dir]>> : dir \in Directions}}]]

s_alignedBits_oneRay ==
  [i \in Squares |-> [sq \in Squares |->
    UNION {IF sq \in bits[i][dir] THEN bits[i][dir] \cup {i} ELSE {} :
             bits \in {s_directionBits}, dir \in Directions}]]

s_alignedBits ==
  [i \in Squares |-> [sq \in Squares |->
    UNION {IF sq \in bits[i][dir] THEN bits[i][dir] \cup bits[i][getOppositeDir(dir)] \cup {i} ELSE {} :
             bits \in {s_directionBits}, dir \in Directions}]]

areAligned(a, b, c) == c \in s_alignedBits[a][b]
betweenBits(a, b) == s_betweenBits[a][b]

RECURSIVE slideRay(_, _, _)
slideRay(bb, dir, occupied) ==
  IF shift(bb, dir) \cap (Squares \ occupied) = {} THEN shift(bb, dir)
  ELSE shift(bb, dir) \cup slideRay(shift(bb, dir), dir, occupied)

slidingAttack(pt, sq, occupied) ==
  UNION {slideRay({sq}, dir, occupied) :
           dir \in (IF pt = ROOK THEN {UP, DOWN, RIGHT, LEFT}
                    ELSE IF pt = BISHOP THEN {UPLEFT, DOWNLEFT, UPRIGHT, DOWNRIGHT}
                    ELSE {})}

s_pawnAttacks == [color \in Colors |-> [sq \in Squares |-> pawnAttackedSquares({sq}, color)]]
pawnAttacks(color, sq) == s_pawnAttacks[color][sq]

s_pieceAttacks ==
  [pt \in {KNIGHT, BISHOP, ROOK, QUEEN, KING} |-> [i \in Squares |->
    UNION {shift(shift({i}, d[1]), d[2]) :
             d \in (IF pt = KNIGHT
                      THEN {<<UP, UPLEFT>>, <<UP, UPRIGHT>>, <<LEFT, UPLEFT>>, <<LEFT, DOWNLEFT>>,
                            <<RIGHT, UPRIGHT>>, <<RIGHT, DOWNRIGHT>>, <<DOWN, DOWNLEFT>>, <<DOWN, DOWNRIGHT>>}
                      ELSE {})}
    \cup UNION {shift({i}, dir) : dir \in (IF pt = KING THEN Directions ELSE {})}
    \cup UNION {slidingAttack(p, i, {}) :
                  p \in (IF pt = QUEEN THEN {BISHOP, ROOK} ELSE {pt} \cap {BISHOP, ROOK})}]]
pseudoAttacks(pt, sq) == s_pieceAttacks[pt][sq]

attacksOf(pt, sq, occ) ==
  IF pt \in {BISHOP, ROOK, QUEEN}
    THEN UNION {slidingAttack(p, sq, occ) : p \in (IF pt = QUEEN THEN {ROOK, BISHOP} ELSE {pt})}
    ELSE pseudoAttacks(pt, sq)

castlingInternalSquares(color, castle) ==
  IF castle = QUEEN_CASTLE
    THEN {makeRelativeSquare(color, 1), makeRelativeSquare(color, C1), makeRelativeSquare(color, D1)}
    ELSE {makeRelativeSquare(color, F1), makeRelativeSquare(color, G1)}

\* the squares of a bitboard in the order pop() yields them (least significant bit first)
bbSeq(bb) == SelectSeq([k \in 1..64 |-> k - 1], LAMBDA sq : sq \in bb)


(***************************************************************************)
(* Score.h (Material, Score) and Scores.cpp (piece values, PST)            *)
(***************************************************************************)
materialOf(pt) == <<0, 1, 3, 3, 5, 10, 0>>[pt + 1]

\* Value is a 16-bit signed integer
I16(x) == ((x + 32768) % 65536) - 32768
S(mg, eg) == <<mg, eg>>
Z == <<0, 0>>
scoreAdd(a, b) == <<I16(a[1] + b[1]), I16(a[2] + b[2])>>
scoreSub(a, b) == <<I16(a[1] - b[1]), I16(a[2] - b[2])>>

PIECE_VALUE == <<Z, S(100, 130), S(320, 360), S(350, 390), S(550, 650), S(1050, 1150), Z>>

\* the 32-entry half tables of Scores.cpp, per piece type PAWN..KING
PST_TABLE ==
  <<
    \* Pawn
  <<
     <<0, 0>>, <<0, 0>>, <<0, 0>>, <<0, 0>>,
     <<20, 40>>, <<20, 45>>, <<16, 45>>, <<25, 45>>,
     <<11, 25>>, <<10, 25>>, <<10, 25>>, <<18, 25>>,
     <<3, 15>>, <<2, 15>>, <<6, 15>>, <<15, 15>>,
     <<0, 10>>, <<0, 10>>, <<4, 10>>, <<12, 10>>,
     <<3, 5>>, <<4, 5>>, <<-4, 5>>, <<0, 5>>,
     <<-2, 0>>, <<-3, 0>>, <<4, 0>>, <<-12, 0>>,
     <<0, 0>>, <<0, 0>>, <<0, 0>>, <<0, 0>>
  >>,
    \* Knight
  <<
     <<-65, -40>>, <<-40, -20>>, <<-22, -20>>, <<-15, -15>>,
     <<-45, -30>>, <<-15, -9>>, <<7, 2>>, <<10, 5>>,
     <<-20, -14>>, <<3, 2>>, <<15, 10>>, <<26, 17>>,
     <<-12, -8>>, <<10, 5>>, <<24, 15>>, <<40, 23>>,
     <<-15, -10>>, <<5, 5>>, <<20, 15>>, <<36, 23>>,
     <<-30, -20>>, <<0, 2>>, <<12, 10>>, <<23, 17>>,
     <<-45, -30>>, <<-16, -9>>, <<2, 2>>, <<8, 5>>,
     <<-60, -40>>, <<-25, -20>>, <<-22, -20>>, <<-25, -15>>
  >>,
    \* Bishop
  <<
     <<-15, -20>>, <<-14, -15>>, <<-9, -10>>, <<-15, -10>>,
     <<-10, -15>>, <<5, 10>>, <<2, 5>>, <<-2, 0>>,
     <<-5, -10>>, <<7, 5>>, <<5, 10>>, <<8, 5>>,
     <<0, -10>>, <<-5, 0>>, <<10, 5>>, <<15, 10>>,
     <<0, -10>>, <<-5, 0>>, <<10, 5>>, <<15, 10>>,
     <<10, -10>>, <<5, 5>>, <<5, 10>>, <<9, 5>>,
     <<5, -15>>, <<20, 10>>, <<3, 5>>, <<0, 0>>,
     <<-5, -20>>, <<-12, -15>>, <<1, -10>>, <<-10, -10>>
  >>,
    \* Rook
  <<
     <<-12, -1>>, <<-10, 0>>, <<-4, 0>>, <<-1, 0>>,
     <<-8, 0>>, <<4, 0>>, <<5, 0>>, <<5, 0>>,
     <<-15, 0>>, <<-2, 0>>, <<-5, 0>>, <<-5, 0>>,
     <<-20, 0>>, <<-5, 0>>, <<-10, 0>>, <<-20, 0>>,
     <<-20, 0>>, <<-5, 0>>, <<-10, 0>>, <<-20, 0>>,
     <<-15, 0>>, <<-2, 0>>, <<-5, 0>>, <<-5, 0>>,
     <<-8, 0>>, <<0, 0>>, <<1, 0>>, <<12, 0>>,
     <<-10, -1>>, <<-8, 0>>, <<2, 0>>, <<20, 0>>
  >>,
    \* Queen
  <<
     <<-8, -20>>, <<-10, -15>>, <<-10, -10>>, <<0, -5>>,
     <<0, -15>>, <<0, -9>>, <<0, 0>>, <<10, 0>>,
     <<0, -10>>, <<0, 0>>, <<0, 5>>, <<6, 6>>,
     <<0, -5>>, <<0, 3>>, <<4, 10>>, <<3, 12>>,
     <<0, -5>>, <<0, 3>>, <<4, 10>>, <<4, 12>>,
     <<0, -10>>, <<0, 0>>, <<0, 5>>, <<0, 6>>,
     <<0, -15>>, <<0, -9>>, <<0, 0>>, <<0, 0>>,
     <<-8, -20>>, <<-8, -15>>, <<-5, -10>>, <<0, -5>>
  >>,
    \* King
  <<
     <<-70, -60>>, <<-70, -45>>, <<-75, -40>>, <<-80, -35>>,
     <<-80, -45>>, <<-80, -25>>, <<-85, -20>>, <<-85, -15>>,
     <<-80, -40>>, <<-80, -20>>, <<-85, -5>>, <<-85, 0>>,
     <<-70, -35>>, <<-70, -15>>, <<-70, 0>>, <<-70, 10>>,
     <<-55, -35>>, <<-55, -15>>, <<-60, 0>>, <<-65, 10>>,
     <<-40, -40>>, <<-45, -20>>, <<-45, -5>>, <<-50, 0>>,
     <<-5, -45>>, <<-5, -25>>, <<-25, -20>>, <<-30, -15>>,
     <<25, -60>>, <<35, -45>>, <<7, -40>>, <<-5, -35>>
  >>
  >>

\* initScores: PST[piece][sq] after mirroring and adding the piece value
PST(piece, sq) ==
  LET pt == getType(piece)
      sqB == IF getColor(piece) = BLACK THEN sq ELSE Square(getFile(sq), 7 - getRank(sq))
      file == IF getFile(sqB) <= 3 THEN getFile(sqB) ELSE 7 - getFile(sqB)
      i == 4 * getRank(sqB) + file
  IN scoreAdd(PST_TABLE[pt][i + 1], PIECE_VALUE[pt + 1])

SIMPLIFIED_PIECE_VALUES(piece) ==
  LET score == PIECE_VALUE[getType(piece) + 1] IN (score[1] + score[2]) \div 2

(***************************************************************************)
(* Zobrist.h : the key tables.  A key is an opaque token; a hash is the    *)
(* set of keys that have been XORed in an odd number of times.             *)
(***************************************************************************)
ZPIECE(piece, sq) == <<"PIECE", piece, sq>>
ZSIDE(color) == <<"SIDE", color>>
ZEP(file) == <<"EP", file>>
ZCASTLING(rights) == <<"CASTLING", rights>>
MOVE_KEY == <<"MOVE_KEY">>
NULL_MOVE_KEY == <<"NULL_MOVE_KEY">>
hxor(h, keys) == (h \ keys) \cup (keys \ h)

(***************************************************************************)
(* Board.h : StateInfo, Board and the primitive board changes              *)
(***************************************************************************)
StateInfo ==
  [checkBlockers |-> [c \in Colors |-> {}],
   pinners |-> [c \in Colors |-> {}],
   checkGivers |-> {},
   hash |-> {},
   lastRepetition |-> 0,
   movesFromNull |-> 0,
   ep |-> NO_POS,
   captured |-> NONE,
   fiftyRule |-> 0,
   castleRight |-> 0]

\* Board::Board()
Board ==
  [m_board |-> [sq \in Squares |-> NONE],
   m_pieces |-> [p \in 0..13 |-> {}],
   m_piecesByColor |-> [c \in Colors |-> {}],
   m_states |-> <<StateInfo>>,
   m_material |-> [c \in Colors |-> 0],
   m_score |-> [c \in Colors |-> Z],
   m_moveCount |-> 1,
   m_side |-> WHITE]

state(b) == b.m_states[Len(b.m_states)]
setState(b, st) == [b EXCEPT !.m_states[Len(b.m_states)] = st]
allPieces(b) == b.m_piecesByColor[WHITE] \cup b.m_piecesByColor[BLACK]
byColor(b, color) == b.m_piecesByColor[color]
byPiece(b, piece) == b.m_pieces[piece]
byPieceType(b, pt) == b.m_pieces[Piece(WHITE, pt)] \cup b.m_pieces[Piece(BLACK, pt)]
rooksAndQueens(b, color) == b.m_pieces[Piece(color, ROOK)] \cup b.m_pieces[Piece(color, QUEEN)]
bishopsAndQueens(b, color) == b.m_pieces[Piece(color, BISHOP)] \cup b.m_pieces[Piece(color, QUEEN)]
king(b, color) == lsb(b.m_pieces[Piece(color, KING)])
isInCheck(b) == state(b).checkGivers # {}
checkBlockers(b, color) == state(b).checkBlockers[color]
pinners(b, color) == state(b).pinners[color]

computeAttackersOf(b, Side, sq, occ) ==
  (pawnAttacks(getOpposite(Side), sq) \cap byPiece(b, Piece(Side, PAWN)))
  \cup UNION {attacksOf(pt, sq, occ) \cap byPiece(b, Piece(Side, pt)) :
                pt \in {KNIGHT, BISHOP, ROOK, QUEEN, KING}}

computeAllAttackersOf(b, sq, occ) ==
  UNION {computeAttackersOf(b, Side, sq, occ) : Side \in Colors}

addPiece(b, Side, piece, to) ==
  [b EXCEPT !.m_board[to] = piece,
            !.m_pieces[piece] = @ \cup {to},
            !.m_piecesByColor[Side] = @ \cup {to},
            !.m_score[Side] = scoreAdd(@, PST(piece, to)),
            !.m_material[Side] = @ + materialOf(getType(piece))]

removeCaptured_keepsScore(b, OppositeSide, captured, to) ==
  IF captured # NONE
    THEN [b EXCEPT !.m_pieces[captured] = @ \ {to},
                   !.m_piecesByColor[OppositeSide] = @ \ {to},
                   !.m_material[OppositeSide] = @ - materialOf(getType(captured))]
    ELSE b

removeCaptured(b, OppositeSide, captured, to) ==
  IF captured # NONE
    THEN [b EXCEPT !.m_pieces[captured] = @ \ {to},
                   !.m_piecesByColor[OppositeSide] = @ \ {to},
                   !.m_score[OppositeSide] = scoreSub(@, PST(captured, to)),
                   !.m_material[OppositeSide] = @ - materialOf(getType(captured))]
    ELSE b

restoreCaptured_noMaterial(b, OppositeSide, captured, to) ==
  IF captured # NONE
    THEN [b EXCEPT !.m_pieces[captured] = @ \cup {to},
                   !.m_piecesByColor[OppositeSide] = @ \cup {to},
                   !.m_score[OppositeSide] = scoreAdd(@, PST(captured, to))]
    ELSE b

restoreCaptured(b, OppositeSide, captured, to) ==
  IF captured # NONE
    THEN [b EXCEPT !.m_pieces[captured] = @ \cup {to},
                   !.m_piecesByColor[OppositeSide] = @ \cup {to},
                   !.m_score[OppositeSide] = scoreAdd(@, PST(captured, to)),
                   !.m_material[OppositeSide] = @ + materialOf(getType(captured))]
    ELSE b

\* writes to m_board in program order: a later write to the same square wins
setBoard(board, writes) ==
  [sq \in Squares |->
     LET hits == {k \in 1..Len(writes) : writes[k][1] = sq}
     IN IF hits = {} THEN board[sq]
        ELSE writes[CHOOSE k \in hits : \A j \in hits : j <= k][2]]

movePieceWithCapture(b, Side, piece, from, to) ==
  LET change == {from} \cup {to}
      captured == b.m_board[to]
      b1 == [b EXCEPT !.m_board = setBoard(@, <<<<from, NONE>>, <<to, piece>>>>),
                      !.m_pieces[piece] = b_xor(@, change),
                      !.m_piecesByColor[Side] = b_xor(@, change),
                      !.m_score[Side] = scoreAdd(@, scoreSub(PST(piece, to), PST(piece, from)))]
  IN [board |-> removeCaptured(b1, getOpposite(Side), captured, to), captured |-> captured]

unmovePieceWithCapture(b, Side, piece, captured, from, to) ==
  LET change == {from} \cup {to}
      b1 == [b EXCEPT !.m_board = setBoard(@, <<<<to, captured>>, <<from, piece>>>>),
                      !.m_pieces[piece] = b_xor(@, change),
                      !.m_piecesByColor[Side] = b_xor(@, change),
                      !.m_score[Side] = scoreSub(@, scoreSub(PST(piece, to), PST(piece, from)))]
  IN restoreCaptured(b1, getOpposite(Side), captured, to)

doEnpassant(b, Side, IsDoing, from, to) ==
  LET OppositeSide == getOpposite(Side)
      OurPawn == Piece(Side, PAWN)
      OppositePawn == Piece(OppositeSide, PAWN)
      change == {from} \cup {to}
      capturedSq == IF Side = WHITE THEN to - 8 ELSE to + 8
      delta == scoreSub(PST(OurPawn, to), PST(OurPawn, from))
  IN IF IsDoing
       THEN [b EXCEPT !.m_board = setBoard(@, <<<<to, OurPawn>>, <<from, NONE>>, <<capturedSq, NONE>>>>),
                      !.m_pieces[OurPawn] = b_xor(@, change),
                      !.m_pieces[OppositePawn] = @ \ {capturedSq},
                      !.m_piecesByColor[Side] = b_xor(@, change),
                      !.m_piecesByColor[OppositeSide] = @ \ {capturedSq},
                      !.m_score[Side] = scoreAdd(@, delta),
                      !.m_score[OppositeSide] = scoreSub(@, PST(OppositePawn, capturedSq)),
                      !.m_material[OppositeSide] = @ - materialOf(PAWN)]
       ELSE [b EXCEPT !.m_board = setBoard(@, <<<<from, OurPawn>>, <<to, NONE>>, <<capturedSq, OppositePawn>>>>),
                      !.m_pieces[OurPawn] = b_xor(@, change),
                      !.m_pieces[OppositePawn] = @ \cup {capturedSq},
                      !.m_piecesByColor[Side] = b_xor(@, change),
                      !.m_piecesByColor[OppositeSide] = @ \cup {capturedSq},
                      !.m_score[Side] = scoreSub(@, delta),
                      !.m_score[OppositeSide] = scoreAdd(@, PST(OppositePawn, capturedSq)),
                      !.m_material[OppositeSide] = @ + materialOf(PAWN)]

promotePawn(b, Side, IsDoing, promoted, from, to) ==
  LET OurPawn == Piece(Side, PAWN)
      change == {from} \cup {to}
      delta == scoreSub(PST(promoted, to), PST(OurPawn, from))
      dm == materialOf(getType(promoted)) - materialOf(PAWN)
  IN IF IsDoing
       THEN [b EXCEPT !.m_board = setBoard(@, <<<<from, NONE>>, <<to, promoted>>>>),
                      !.m_pieces[OurPawn] = @ \ {from},
                      !.m_pieces[promoted] = @ \cup {to},
                      !.m_piecesByColor[Side] = b_xor(@, change),
                      !.m_score[Side] = scoreAdd(@, delta),
                      !.m_material[Side] = @ + dm]
       ELSE [b EXCEPT !.m_board = setBoard(@, <<<<to, NONE>>, <<from, OurPawn>>>>),
                      !.m_pieces[OurPawn] = @ \cup {from},
                      !.m_pieces[promoted] = @ \ {to},
                      !.m_piecesByColor[Side] = b_xor(@, change),
                      !.m_score[Side] = scoreSub(@, delta),
                      !.m_material[Side] = @ - dm]

promotePawnWithCapture(b, Side, promoted, from, to) ==
  LET captured == b.m_board[to]
      b1 == promotePawn(b, Side, TRUE, promoted, from, to)
  IN [board |-> removeCaptured(b1, getOpposite(Side), captured, to), captured |-> captured]

unpromotePawnWithCapture(b, Side, promoted, captured, from, to) ==
  LET OurPawn == Piece(Side, PAWN)
      change == {from} \cup {to}
      b1 == [b EXCEPT !.m_board = setBoard(@, <<<<to, captured>>, <<from, OurPawn>>>>),
                      !.m_pieces[OurPawn] = @ \cup {from},
                      !.m_pieces[promoted] = @ \ {to},
                      !.m_piecesByColor[Side] = b_xor(@, change),
                      !.m_score[Side] = scoreSub(@, scoreSub(PST(promoted, to), PST(OurPawn, from))),
                      !.m_material[Side] = @ - (materialOf(getType(promoted)) - materialOf(PAWN))]
  IN restoreCaptured(b1, getOpposite(Side), captured, to)

castleRookFrom(Side, to) == makeRelativeSquare(Side, IF getFile(to) = 6 THEN H1 ELSE A1)
castleRookTo(Side, to) == makeRelativeSquare(Side, IF getFile(to) = 6 THEN F1 ELSE D1)

doCastling(b, Side, IsDoing, from, to) ==
  LET OurRook == Piece(Side, ROOK)
      OurKing == Piece(Side, KING)
      kingFrom == IF IsDoing THEN from ELSE to
      kingTo == IF IsDoing THEN to ELSE from
      ROOK_FROM == IF IsDoing THEN castleRookFrom(Side, to) ELSE castleRookTo(Side, to)
      ROOK_TO == IF IsDoing THEN castleRookTo(Side, to) ELSE castleRookFrom(Side, to)
      changeKing == {from} \cup {to}
      changeRook == {ROOK_FROM, ROOK_TO}
  IN [b EXCEPT !.m_board = setBoard(@, <<<<kingFrom, NONE>>, <<kingTo, OurKing>>,
                                         <<ROOK_FROM, NONE>>, <<ROOK_TO, OurRook>>>>),
               !.m_pieces[OurKing] = b_xor(@, changeKing),
               !.m_pieces[OurRook] = b_xor(@, changeRook),
               !.m_piecesByColor[Side] = b_xor(@, changeKing \cup changeRook),
               !.m_score[Side] = scoreAdd(@, scoreAdd(scoreSub(PST(OurKing, kingTo), PST(OurKing, kingFrom)),
                                                       scoreSub(PST(OurRook, ROOK_TO), PST(OurRook, ROOK_FROM))))]

pushNextState(b) ==
  LET prev == state(b)
      result == [StateInfo EXCEPT !.castleRight = prev.castleRight,
                                  !.fiftyRule = (prev.fiftyRule + 1) % 256,
                                  !.movesFromNull = prev.movesFromNull + 1,
                                  !.hash = prev.hash]
  IN [b EXCEPT !.m_states = Append(@, result)]

\* updateInternalState(side): check blockers of side's king and the pinners of the other side
updateInternalStateSide(b, st, side) ==
  LET kingSq == king(b, side)
      \* the pieces between the king and each sniper that has exactly one piece in between
      blocked(snipers) ==
        {blocker \in {<<sq, betweenBits(kingSq, sq) \cap b_xor(allPieces(b), snipers)>> : sq \in snipers} :
           Cardinality(blocker[2]) = 1}
      update(single) ==
        [st EXCEPT !.checkBlockers[side] = UNION {blocker[2] : blocker \in single},
                   !.pinners[getOpposite(side)] =
                      @ \cup {blocker[1] : blocker \in {x \in single : x[2] \cap byColor(b, side) # {}}}]
  IN update(blocked(UNION {pseudoAttacks(pt[1], kingSq) \cap pt[2] :
                             pt \in {<<BISHOP, bishopsAndQueens(b, getOpposite(side))>>,
                                     <<ROOK, rooksAndQueens(b, getOpposite(side))>>}}))

updateInternalState(b) ==
  LET givers(st) == [st EXCEPT !.checkGivers =
                       computeAttackersOf(b, getOpposite(b.m_side), king(b, b.m_side), allPieces(b))]
      sides(st0) == updateInternalStateSide(b, updateInternalStateSide(b, st0, WHITE), BLACK)
  IN setState(b, sides(givers(state(b))))

initInternalState(b) == updateInternalState(b)

\* the repetition scan at the end of makeMove; indices are the 0-based ones of the code
RECURSIVE scanRepetition(_, _, _, _)
scanRepetition(states, i, to, current) ==
  IF i < to THEN 0
  ELSE IF states[i + 1].hash = current THEN Len(states) - i
  ELSE scanRepetition(states, i - 2, to, current)

\* variant whose scan starts two positions further back
updateRepetition_lateScan(b) ==
  LET st == state(b)
      ply == Min(st.fiftyRule, st.movesFromNull)
      found == scanRepetition(b.m_states, Len(b.m_states) - 7, Len(b.m_states) - ply, st.hash)
  IN IF ply >= 4 /\ found # 0 THEN setState(b, [st EXCEPT !.lastRepetition = found]) ELSE b

updateRepetition(b) ==
  LET st == state(b)
      ply == Min(st.fiftyRule, st.movesFromNull)
      found == scanRepetition(b.m_states, Len(b.m_states) - 5, Len(b.m_states) - ply, st.hash)
  IN IF ply >= 4 /\ found # 0 THEN setState(b, [st EXCEPT !.lastRepetition = found]) ELSE b

makeMoveSimple(b, st, Side, piece, from, to) ==
  LET update(captured) ==
        LET st1 == [st EXCEPT !.captured = captured]
            st2 == IF captured # NONE
                     THEN [st1 EXCEPT !.hash = hxor(@, {ZPIECE(captured, to)}), !.fiftyRule = 0]
                   ELSE IF piece = Piece(Side, PAWN)
                     THEN [st1 EXCEPT !.fiftyRule = 0,
                                      !.ep = IF distance(from, to) = 2
                                               THEN (IF Side = WHITE THEN from + 8 ELSE from - 8)
                                               ELSE @]
                   ELSE st1
        IN [st2 EXCEPT !.hash = hxor(@, hxor({ZPIECE(piece, from)}, {ZPIECE(piece, to)})),
                       !.castleRight = bitAnd(bitAnd(@, getCastleChangeMask(from)), getCastleChangeMask(to))]
      moved(r) == setState(r.board, update(r.captured))
  IN moved(movePieceWithCapture(b, Side, piece, from, to))

makeMovePromotion(b, st, Side, m, from, to) ==
  LET promoted == Piece(Side, getPromotedPiece(m))
      isCapture == to - from # (IF Side = WHITE THEN 8 ELSE -8)
      update(captured) ==
        LET st1 == IF isCapture
                     THEN [st EXCEPT !.captured = captured,
                                     !.hash = IF captured # NONE THEN hxor(@, {ZPIECE(captured, to)}) ELSE @]
                     ELSE st
        IN [st1 EXCEPT !.hash = hxor(@, hxor({ZPIECE(Piece(Side, PAWN), from)}, {ZPIECE(promoted, to)})),
                       !.fiftyRule = 0,
                       !.castleRight = bitAnd(bitAnd(@, getCastleChangeMask(from)), getCastleChangeMask(to))]
      moved(r) == setState(r.board, update(r.captured))
  IN moved(IF isCapture THEN promotePawnWithCapture(b, Side, promoted, from, to)
           ELSE [board |-> promotePawn(b, Side, TRUE, promoted, from, to), captured |-> NONE])

makeMoveEnpassant(b, st, Side, from, to) ==
  LET OurPawn == Piece(Side, PAWN)
      st1 == [st EXCEPT !.fiftyRule = 0,
                        !.hash = hxor(@, hxor({ZPIECE(OurPawn, from)}, {ZPIECE(OurPawn, to)}))]
  IN setState(doEnpassant(b, Side, TRUE, from, to), st1)

makeMoveCastle(b, st, Side, from, to) ==
  LET OurKing == Piece(Side, KING)
      OurRook == Piece(Side, ROOK)
      st1 == [st EXCEPT !.castleRight = bitOr(bitAnd(@, getCastleChangeMask(from)),
                                              getBitMaskFor(CASTLE_DONE, Side)),
                        !.hash = hxor(hxor(@, hxor({ZPIECE(OurKing, from)}, {ZPIECE(OurKing, to)})),
                                      hxor({ZPIECE(OurRook, castleRookFrom(Side, to))},
                                           {ZPIECE(OurRook, castleRookTo(Side, to))}))]
  IN setState(doCastling(b, Side, TRUE, from, to), st1)

\* Board::makeMove
makeMove(b, m) ==
  LET Side == b.m_side
      from == getFrom(m)
      to == getTo(m)
      mt == getMoveType(m)
      piece == b.m_board[from]
      b1 == [pushNextState(b) EXCEPT !.m_moveCount = @ + 1,
                                     !.m_side = getOpposite(Side)]
      st == [state(b1) EXCEPT !.ep = NO_POS, !.hash = hxor(@, {MOVE_KEY})]
      b2 == CASE mt = SIMPLE -> makeMoveSimple(b1, st, Side, piece, from, to)
              [] mt = PROMOTION -> makeMovePromotion(b1, st, Side, m, from, to)
              [] mt = ENPASSANT -> makeMoveEnpassant(b1, st, Side, from, to)
              [] mt = CASTLE -> makeMoveCastle(b1, st, Side, from, to)
  IN updateRepetition(updateInternalState(b2))

\* Board::unmakeMove
unmakeMove(b, m) ==
  LET Side == IF b.m_side = BLACK THEN WHITE ELSE BLACK
      captured == state(b).captured
      b1 == [b EXCEPT !.m_states = SubSeq(@, 1, Len(@) - 1),
                      !.m_moveCount = @ - 1,
                      !.m_side = Side]
      from == getFrom(m)
      to == getTo(m)
      mt == getMoveType(m)
      piece == b.m_board[to]
      promoted == Piece(Side, getPromotedPiece(m))
  IN CASE mt = SIMPLE -> unmovePieceWithCapture(b1, Side, piece, captured, from, to)
       [] mt = PROMOTION ->
            IF captured # NONE THEN unpromotePawnWithCapture(b1, Side, promoted, captured, from, to)
            ELSE promotePawn(b1, Side, FALSE, promoted, from, to)
       [] mt = ENPASSANT -> doEnpassant(b1, Side, FALSE, from, to)
       [] mt = CASTLE -> doCastling(b1, Side, FALSE, from, to)

makeNullMove(b) ==
  LET b1 == pushNextState([b EXCEPT !.m_side = getOpposite(@)])
      st == [state(b1) EXCEPT !.hash = hxor(@, {NULL_MOVE_KEY}), !.movesFromNull = 0]
  IN updateInternalState(setState(b1, st))

unmakeNullMove(b) ==
  [b EXCEPT !.m_side = getOpposite(@), !.m_states = SubSeq(@, 1, Len(@) - 1)]

computeHash(b) ==
  hxor(hxor(hxor(state(b).hash, {ZSIDE(b.m_side)}),
            IF state(b).ep # NO_POS THEN {ZEP(getFile(state(b).ep))} ELSE {}),
       {ZCASTLING(state(b).castleRight)})

lowMaterialDraw(b) ==
  IF byPieceType(b, PAWN) # {} THEN FALSE
  ELSE b.m_material[WHITE] < 5 /\ b.m_material[BLACK] < 5
fiftyRuleDraw(b) == state(b).fiftyRule >= 100
repetitionDraw(b, ply) ==
  LET lastRep == state(b).lastRepetition
  IN IF lastRep # 0
       THEN (IF ply # 0 THEN TRUE
             ELSE b.m_states[Len(b.m_states) - lastRep + 1].lastRepetition # 0)
       ELSE FALSE
isDraw(b, ply) == lowMaterialDraw(b) \/ fiftyRuleDraw(b) \/ repetitionDraw(b, ply)

(***************************************************************************)
(* StringUtils.h fromString, Board::fromFEN, Board::toFEN                  *)
(* A string is a sequence of one-character strings; i is the 0-based index *)
(* of the code.                                                            *)
(***************************************************************************)
U8_PREVIOUS_VALUE_MAX == 25
U32_PREVIOUS_VALUE_MAX == 429496729

RECURSIVE fromStringLoop(_, _, _, _)
fromStringLoop(str, i, result, PREVIOUS_VALUE_MAX) ==
  IF i >= Len(str) THEN [value |-> result, i |-> i]
  ELSE IF ~isDigit(str[i + 1]) THEN [value |-> result, i |-> i]
  ELSE LET r == result * 10 + digitValue(str[i + 1])
       IN IF r >= PREVIOUS_VALUE_MAX THEN [value |-> r, i |-> i]
          ELSE fromStringLoop(str, i + 1, r, PREVIOUS_VALUE_MAX)

fromString(str, i, PREVIOUS_VALUE_MAX) ==
  IF str = <<>> THEN [value |-> 0, i |-> i]
  ELSE fromStringLoop(str, i, 0, PREVIOUS_VALUE_MAX)

RECURSIVE to_string(_)
to_string(n) ==
  IF n < 10 THEN <<Digits[n + 1]>> ELSE to_string(n \div 10) \o <<Digits[(n % 10) + 1]>>

colorFromFENChar(ch) == IF ch = "w" THEN WHITE ELSE BLACK

\* the piece-placement loop of fromFEN
RECURSIVE fenPieces(_, _, _, _)
fenPieces(fen, i, sq, b) ==
  IF i >= Len(fen) \/ fen[i + 1] = " " THEN [i |-> i, board |-> b, ok |-> TRUE]
  ELSE LET ch == fen[i + 1]
           piece == fromFENChar(ch)
       IN IF isDigit(ch) THEN fenPieces(fen, i + 1, sq + digitValue(ch), b)
          ELSE IF ch = "/" THEN fenPieces(fen, i + 1, Square(0, getRank(sq - 1) - 1), b)
          \* (b.m_side is WHITE all through the loop; reading b here has it evaluated
          \* character by character instead of all at once at the end)
          ELSE IF piece = NONE \/ b.m_side # WHITE THEN [i |-> i, board |-> b, ok |-> FALSE]
          ELSE fenPieces(fen, i + 1, sq + 1,
                 [addPiece(b, getColor(piece), piece, sq)
                    EXCEPT !.m_states[1].hash = hxor(@, {ZPIECE(piece, sq)})])

\* the castling-rights loop of fromFEN
RECURSIVE fenCastle(_, _, _)
fenCastle(fen, i, rights) ==
  IF i < Len(fen) /\ fen[i + 1] # " "
    THEN fenCastle(fen, i + 1, bitOr(rights, bitMaskFromFENChar(fen[i + 1])))
    ELSE [i |-> i, rights |-> rights]

\* success is "true", "false" or "unset" (the out-parameter was not written)
fenMoveCount(fen, b, side, i) ==
  IF i >= Len(fen) THEN [board |-> b, success |-> "unset"]
  ELSE [board |-> [b EXCEPT !.m_moveCount =
                     (IF fromString(fen, i, U32_PREVIOUS_VALUE_MAX).value # 0
                        THEN 2 * (fromString(fen, i, U32_PREVIOUS_VALUE_MAX).value - 1) ELSE 0)
                     + getOpposite(side)],
        success |-> "true"]

fenFiftyRule(fen, b, side, i, f) ==
  IF i >= Len(fen) - 1 THEN [board |-> b, success |-> "unset"]
  ELSE fenMoveCount(fen, [b EXCEPT !.m_states[1].fiftyRule = f.value], side, f.i + 1)

fenEnpassant(fen, b, side, i) ==
  IF fen[i + 1] # "-" /\ i >= Len(fen) - 1 THEN [board |-> b, success |-> "false"]
  ELSE IF fen[i + 1] # "-"
    THEN fenFiftyRule(fen, [b EXCEPT !.m_states[1].ep = fromChars(fen[i + 1], fen[i + 2])], side, i + 2,
                      fromString(fen, i + 3, U8_PREVIOUS_VALUE_MAX))
    ELSE fenFiftyRule(fen, b, side, i + 1, fromString(fen, i + 2, U8_PREVIOUS_VALUE_MAX))

fenCastleRights(fen, b, side, i, c) ==
  IF i >= Len(fen) - 1 THEN [board |-> b, success |-> "unset"]
  ELSE IF c.i >= Len(fen) - 1
    THEN [board |-> [b EXCEPT !.m_states[1].castleRight = bitOr(@, c.rights)], success |-> "unset"]
  ELSE fenEnpassant(fen, [b EXCEPT !.m_states[1].castleRight = bitOr(@, c.rights)], side, c.i + 1)

fenSide(fen, p, side) ==
  IF ~p.ok \/ p.i + 1 >= Len(fen) THEN [board |-> p.board, success |-> "false"]
  ELSE fenCastleRights(fen, [p.board EXCEPT !.m_side = side, !.m_states[1].hash = hxor(@, {ZSIDE(side)})],
                       side, p.i + 2,
                       IF p.i + 2 >= Len(fen) - 1 THEN [i |-> 0, rights |-> 0]
                       ELSE IF fen[p.i + 4] # "-" THEN fenCastle(fen, p.i + 3, 0)
                       ELSE [i |-> p.i + 4, rights |-> 0])

\* the fields of a FEN in order; the internal state is initialised on success only
fenFields(fen, p) ==
  fenSide(fen, p, IF p.i + 2 <= Len(fen) THEN colorFromFENChar(fen[p.i + 2]) ELSE WHITE)

fenDone(r) ==
  IF r.success = "true" THEN [r EXCEPT !.board = initInternalState(@)] ELSE r

\* success is "true", "false" or "unset" (the out-parameter was not written)
fromFEN(fen) == fenDone(fenFields(fen, fenPieces(fen, 0, 56, Board)))

\* one rank of the piece-placement field
RECURSIVE fenRank(_, _, _, _)
fenRank(b, rank, file, empties) ==
  IF file > 7 THEN (IF empties # 0 THEN <<Digits[empties + 1]>> ELSE <<>>)
  ELSE LET piece == b.m_board[Square(file, rank)]
       IN IF piece = NONE THEN fenRank(b, rank, file + 1, empties + 1)
          ELSE (IF empties # 0 THEN <<Digits[empties + 1]>> ELSE <<>>)
               \o <<pieceToChar(piece)>> \o fenRank(b, rank, file + 1, 0)

RECURSIVE fenRanks(_, _)
fenRanks(b, rank) ==
  IF rank < 0 THEN <<>> ELSE fenRank(b, rank, 0, 0) \o <<"/">> \o fenRanks(b, rank - 1)

toFEN(b) ==
  LET withSlash == fenRanks(b, 7)
      placement == IF withSlash[Len(withSlash)] = "/" THEN SubSeq(withSlash, 1, Len(withSlash) - 1)
                   ELSE withSlash
      sideStr == IF b.m_side = BLACK THEN <<" ", "b", " ">> ELSE <<" ", "w", " ">>
      right(castle, color) ==
        IF hasCastleRight(state(b).castleRight, castle, color)
          THEN <<castleToFENChar(castle, color)>> ELSE <<>>
      castleStr == IF hasAnyCastleRight(state(b).castleRight)
                     THEN right(KING_CASTLE, WHITE) \o right(QUEEN_CASTLE, WHITE)
                          \o right(KING_CASTLE, BLACK) \o right(QUEEN_CASTLE, BLACK) \o <<" ">>
                     ELSE <<"-", " ">>
      epStr == IF state(b).ep = NO_POS THEN <<"-", " ">> ELSE squareToString(state(b).ep) \o <<" ">>
      moveNumber == IF b.m_moveCount # 0
                      THEN (b.m_moveCount - getOpposite(b.m_side)) \div 2 + 1
                      ELSE 1
  IN placement \o sideStr \o castleStr \o epStr
       \o to_string(state(b).fiftyRule) \o <<" ">> \o to_string(moveNumber)

(***************************************************************************)
(* Board::generateMoves, Board::isLegal                                    *)
(***************************************************************************)
ALL_MOVES == 0
CAPTURES == 1
CHECK_EVASIONS == 2
QUIET_CHECKS == 3
GenerationModes == {ALL_MOVES, CAPTURES, CHECK_EVASIONS, QUIET_CHECKS}

makeRelativeDirection(Side, dir) == IF Side = WHITE THEN dir ELSE getOppositeDir(dir)

\* one SIMPLE move per square of targets, the origin computed from the target
simpleMoves(targets, origin(_)) ==
  LET s == bbSeq(targets) IN [k \in 1..Len(s) |-> Move(origin(s[k]), s[k], SIMPLE, KNIGHT)]

\* the promotions to each target: queen, then (unless captures only) rook, bishop, knight
RECURSIVE promotionMoves(_, _, _)
promotionMoves(s, origin(_), Mode) ==
  IF s = <<>> THEN <<>>
  ELSE LET sq == Head(s)
           q == <<Move(origin(sq), sq, PROMOTION, QUEEN)>>
           rest == IF Mode # CAPTURES
                     THEN <<Move(origin(sq), sq, PROMOTION, ROOK),
                            Move(origin(sq), sq, PROMOTION, BISHOP),
                            Move(origin(sq), sq, PROMOTION, KNIGHT)>>
                     ELSE <<>>
       IN q \o rest \o promotionMoves(Tail(s), origin, Mode)

RECURSIVE concatAll(_)
concatAll(ss) == IF ss = <<>> THEN <<>> ELSE Head(ss) \o concatAll(Tail(ss))

generatePieceMoves(b, Side, Mode, PT, all, trg) ==
  concatAll([k \in 1..Cardinality(byPiece(b, Piece(Side, PT))) |->
    simpleMoves(attacksOf(PT, bbSeq(byPiece(b, Piece(Side, PT)))[k], all) \cap trg
                  \cap (IF /\ Mode = QUIET_CHECKS
                           /\ bbSeq(byPiece(b, Piece(Side, PT)))[k] \notin checkBlockers(b, getOpposite(Side))
                          THEN attacksOf(PT, king(b, getOpposite(Side)), all)
                          ELSE Squares),
                LAMBDA t : bbSeq(byPiece(b, Piece(Side, PT)))[k])])

\* generateMoves<Side, Mode>: enemyPieces
enemyPiecesOf(b, Side, Mode) ==
  IF Mode = CHECK_EVASIONS THEN state(b).checkGivers ELSE b.m_piecesByColor[getOpposite(Side)]

\* generateMoves<Side, Mode>: trg
targetSquares(b, Side, Mode) ==
  CASE Mode = CAPTURES -> enemyPiecesOf(b, Side, Mode)
    [] Mode = CHECK_EVASIONS -> betweenBits(king(b, Side), lsb(state(b).checkGivers))
    [] Mode = QUIET_CHECKS -> Squares \ allPieces(b)
    [] OTHER -> Squares \ b.m_piecesByColor[Side]

\* generateMoves<Side, Mode>: the king part is entered
kingPart(b, Side, Mode) ==
  Mode # QUIET_CHECKS \/ king(b, Side) \in checkBlockers(b, getOpposite(Side))

generateKingMoves(b, Side, Mode, trg) ==
  IF kingPart(b, Side, Mode)
    THEN simpleMoves((attacksOf(KING, king(b, Side), allPieces(b))
                        \cap (IF Mode # CHECK_EVASIONS THEN trg ELSE Squares \ b.m_piecesByColor[Side]))
                       \ (IF Mode = QUIET_CHECKS THEN pseudoAttacks(QUEEN, king(b, getOpposite(Side))) ELSE {}),
                     LAMBDA t : king(b, Side))
    ELSE <<>>

generatePawnPromotions(b, Side, Mode, trg, promotablePawns, enemyPieces) ==
  IF Mode # QUIET_CHECKS /\ promotablePawns # {}
    THEN concatAll([k \in 1..3 |->
           promotionMoves(bbSeq(shift(promotablePawns, makeRelativeDirection(Side, <<UP, UPLEFT, UPRIGHT>>[k]))
                                  \cap <<Squares \ allPieces(b), enemyPieces, enemyPieces>>[k]
                                  \cap (IF Mode = CHECK_EVASIONS /\ k = 1 THEN trg ELSE Squares)),
                          LAMBDA t : shiftSq(t, makeRelativeDirection(Side, <<DOWN, DOWNRIGHT, DOWNLEFT>>[k])),
                          Mode)])
    ELSE <<>>

generatePawnCaptures(b, Side, Mode, nonPromotablePawns, enemyPieces) ==
  IF Mode # QUIET_CHECKS /\ nonPromotablePawns # {}
    THEN concatAll([k \in 1..2 |->
           simpleMoves(shift(nonPromotablePawns, makeRelativeDirection(Side, <<UPLEFT, UPRIGHT>>[k]))
                         \cap enemyPieces,
                       LAMBDA t : shiftSq(t, makeRelativeDirection(Side, <<DOWNRIGHT, DOWNLEFT>>[k])))])
         \o (IF state(b).ep # NO_POS
               THEN [k \in 1..Cardinality(b.m_pieces[Piece(Side, PAWN)]
                                            \cap pawnAttackedSquares({state(b).ep}, getOpposite(Side))) |->
                      Move(bbSeq(b.m_pieces[Piece(Side, PAWN)]
                                   \cap pawnAttackedSquares({state(b).ep}, getOpposite(Side)))[k],
                           state(b).ep, ENPASSANT, KNIGHT)]
               ELSE <<>>)
    ELSE <<>>

\* the restriction of the pawn pushes; blocking is pawnsBlockingCheck before its shifts
pushFilter(b, Side, Mode, trg, blocking, shifts) ==
  CASE Mode = CHECK_EVASIONS -> trg
    [] Mode = QUIET_CHECKS ->
         pawnAttacks(getOpposite(Side), king(b, getOpposite(Side)))
         \cup (IF shifts = 1 THEN shift(blocking, makeRelativeDirection(Side, UP))
               ELSE shift(shift(blocking, makeRelativeDirection(Side, UP)), makeRelativeDirection(Side, UP)))
    [] OTHER -> Squares

generateQuietPawnMoves(b, Side, Mode, trg, singlePawnPush) ==
  IF Mode # CAPTURES
    THEN simpleMoves(singlePawnPush
                       \cap pushFilter(b, Side, Mode, trg,
                              checkBlockers(b, getOpposite(Side))
                                \ fromFile(getFile(king(b, getOpposite(Side)))), 1),
                     LAMBDA t : shiftSq(t, makeRelativeDirection(Side, DOWN)))
         \o simpleMoves(shift(singlePawnPush \cap fromRank(makeRelativeRank(Side, 2)),
                              makeRelativeDirection(Side, UP))
                          \cap (Squares \ allPieces(b))
                          \cap pushFilter(b, Side, Mode, trg,
                                 checkBlockers(b, getOpposite(Side))
                                   \ fromFile(getFile(king(b, getOpposite(Side)))), 2),
                        LAMBDA t : shiftSq(shiftSq(t, makeRelativeDirection(Side, DOWN)),
                                           makeRelativeDirection(Side, DOWN)))
    ELSE <<>>

generateCastlings_throughPieces(b, Side, Mode) ==
  IF Mode = ALL_MOVES
    THEN concatAll([k \in 1..2 |->
           IF hasCastleRight(state(b).castleRight, <<KING_CASTLE, QUEEN_CASTLE>>[k], Side)
             THEN <<Move(king(b, Side), Square(<<6, 2>>[k], makeRelativeRank(Side, 0)), CASTLE, KNIGHT)>>
             ELSE <<>>])
    ELSE <<>>

generateCastlings(b, Side, Mode) ==
  IF Mode = ALL_MOVES
    THEN concatAll([k \in 1..2 |->
           IF /\ hasCastleRight(state(b).castleRight, <<KING_CASTLE, QUEEN_CASTLE>>[k], Side)
              /\ castlingInternalSquares(Side, <<KING_CASTLE, QUEEN_CASTLE>>[k]) \cap allPieces(b) = {}
             THEN <<Move(king(b, Side), Square(<<6, 2>>[k], makeRelativeRank(Side, 0)), CASTLE, KNIGHT)>>
             ELSE <<>>])
    ELSE <<>>

\* the moves after the king's, given trg and the pawns on the relative seventh rank
generateOtherMoves(b, Side, Mode, trg, promotablePawns) ==
  generatePawnPromotions(b, Side, Mode, trg, promotablePawns, enemyPiecesOf(b, Side, Mode))
  \o generatePawnCaptures(b, Side, Mode, b_xor(b.m_pieces[Piece(Side, PAWN)], promotablePawns),
                          enemyPiecesOf(b, Side, Mode))
  \o generateQuietPawnMoves(b, Side, Mode, trg,
       shift(b_xor(b.m_pieces[Piece(Side, PAWN)], promotablePawns), makeRelativeDirection(Side, UP))
         \cap (Squares \ allPieces(b)))
  \o concatAll([k \in 1..4 |->
       generatePieceMoves(b, Side, Mode, <<KNIGHT, BISHOP, ROOK, QUEEN>>[k], allPieces(b), trg)])
  \o generateCastlings(b, Side, Mode)

\* generateMoves<Side, Mode>: the moves appended to the list, in program order
generateMovesSide(b, Side, Mode) ==
  generateKingMoves(b, Side, Mode, targetSquares(b, Side, Mode))
  \o (IF kingPart(b, Side, Mode) /\ Mode = CHECK_EVASIONS /\ hasMoreThanOne(state(b).checkGivers)
        THEN <<>>
        ELSE generateOtherMoves(b, Side, Mode, targetSquares(b, Side, Mode),
               b.m_pieces[Piece(Side, PAWN)] \cap fromRank(makeRelativeRank(Side, 6))))

\* generateMoves<Mode>(moves): the list after the call
generateMoves(b, Mode, moves) ==
  (IF Mode = QUIET_CHECKS THEN moves ELSE <<>>)
  \o generateMovesSide(b, b.m_side,
       IF Mode \notin {QUIET_CHECKS, CHECK_EVASIONS} /\ isInCheck(b) THEN CHECK_EVASIONS ELSE Mode)

isLegal_anyEnpassant(b, m) ==
  LET from == getFrom(m)
      to == getTo(m)
      mt == getMoveType(m)
      opp == getOpposite(b.m_side)
      kingSq == king(b, b.m_side)
      path == IF getFile(to) = 6 THEN {sq \in Squares : from < sq /\ sq <= to}
              ELSE {sq \in Squares : to <= sq /\ sq < from}
  IN CASE mt = SIMPLE /\ getType(b.m_board[from]) = KING ->
            computeAttackersOf(b, opp, to, b_xor(allPieces(b), {from})) = {}
       [] mt = PROMOTION \/ (mt = SIMPLE /\ getType(b.m_board[from]) # KING) ->
            from \notin checkBlockers(b, b.m_side) \/ areAligned(from, to, kingSq)
       [] mt = ENPASSANT -> TRUE
       [] mt = CASTLE ->
            \A sq \in path : computeAttackersOf(b, opp, sq, allPieces(b)) = {}

isLegal(b, m) ==
  LET from == getFrom(m)
      to == getTo(m)
      mt == getMoveType(m)
      opp == getOpposite(b.m_side)
      kingSq == king(b, b.m_side)
      capturedSq == IF b.m_side = WHITE THEN to - 8 ELSE to + 8
      occ == b_xor(b_xor(allPieces(b), {from}), {capturedSq}) \cup {to}
      path == IF getFile(to) = 6 THEN {sq \in Squares : from < sq /\ sq <= to}
              ELSE {sq \in Squares : to <= sq /\ sq < from}
  IN CASE mt = SIMPLE /\ getType(b.m_board[from]) = KING ->
            computeAttackersOf(b, opp, to, b_xor(allPieces(b), {from})) = {}
       [] mt = PROMOTION \/ (mt = SIMPLE /\ getType(b.m_board[from]) # KING) ->
            from \notin checkBlockers(b, b.m_side) \/ areAligned(from, to, kingSq)
       [] mt = ENPASSANT ->
            attacksOf(ROOK, kingSq, occ) \cap rooksAndQueens(b, opp) = {}
            /\ attacksOf(BISHOP, kingSq, occ) \cap bishopsAndQueens(b, opp) = {}
       [] mt = CASTLE ->
            \A sq \in path : computeAttackersOf(b, opp, sq, allPieces(b)) = {}

(***************************************************************************)
(* The positions games are started from (Engine newGame -> fromFEN)        *)
(***************************************************************************)
StartFENs ==
  {
   \* r3k2r/p6p/8/8/8/8/P6P/R3K2R w KQkq - 0 1
   <<"r", "3", "k", "2", "r", "/", "p", "6", "p", "/", "8", "/", "8", "/", "8", "/", "8", "/",
    "P", "6", "P", "/", "R", "3", "K", "2", "R", " ", "w", " ", "K", "Q", "k", "q", " ", "-",
    " ", "0", " ", "1">>,
   \* 1n2k3/P6p/8/6P1/8/8/8/4K3 w - - 0 1
   <<"1", "n", "2", "k", "3", "/", "P", "6", "p", "/", "8", "/", "6", "P", "1", "/", "8", "/",
    "8", "/", "8", "/", "4", "K", "3", " ", "w", " ", "-", " ", "-", " ", "0", " ", "1">>,
   \* 4k3/8/8/6Pp/8/8/8/4K3 w - h6 0 2
   <<"4", "k", "3", "/", "8", "/", "8", "/", "6", "P", "p", "/", "8", "/", "8", "/", "8", "/",
    "4", "K", "3", " ", "w", " ", "-", " ", "h", "6", " ", "0", " ", "2">>,
   \* 4k3/8/8/8/1b6/8/3N4/r3K3 w - - 3 9
   <<"4", "k", "3", "/", "8", "/", "8", "/", "8", "/", "1", "b", "6", "/", "8", "/", "3", "N",
    "4", "/", "r", "3", "K", "3", " ", "w", " ", "-", " ", "-", " ", "3", " ", "9">>,
   \* 2b1k3/3p4/8/4P3/8/7K/8/8 b - - 0 1
   <<"2", "b", "1", "k", "3", "/", "3", "p", "4", "/", "8", "/", "4", "P", "3", "/", "8", "/",
    "7", "K", "/", "8", "/", "8", " ", "b", " ", "-", " ", "-", " ", "0", " ", "1">>,
   \* 4k3/8/8/8/8/8/p7/1N2K3 b - - 0 1
   <<"4", "k", "3", "/", "8", "/", "8", "/", "8", "/", "8", "/", "8", "/", "p", "7", "/", "1",
    "N", "2", "K", "3", " ", "b", " ", "-", " ", "-", " ", "0", " ", "1">>,
   \* 4r1k1/8/8/8/8/3n4/8/4K3 w - - 5 20
   <<"4", "r", "1", "k", "1", "/", "8", "/", "8", "/", "8", "/", "8", "/", "3", "n", "4", "/",
    "8", "/", "4", "K", "3", " ", "w", " ", "-", " ", "-", " ", "5", " ", "2", "0">>,
   \* 4k3/7p/8/8/8/8/P7/R3K3 w Q - 24 40
   <<"4", "k", "3", "/", "7", "p", "/", "8", "/", "8", "/", "8", "/", "8", "/", "P", "7", "/",
    "R", "3", "K", "3", " ", "w", " ", "Q", " ", "-", " ", "2", "4", " ", "4", "0">>
  }

(***************************************************************************)
(* Scores.h : common constants of the engine                               *)
(***************************************************************************)
MAX_DEPTH == 99
INF == 31000
MATE == 30000

isMateValue(value) ==
  \/ (value > MATE - MAX_DEPTH * 2 /\ value <= MATE)
  \/ (value < MAX_DEPTH * 2 - MATE /\ value >= -MATE)

(***************************************************************************)
(* TranspositionTable.h                                                    *)
(***************************************************************************)
NON_PV == 0
PV == 1
EXACT == 2
BETA == 4
ALPHA == 6

\* the table is zeroed by init()
TableEntry == [hash |-> 0, move |-> 0, value |-> 0, age |-> 0, depth |-> 0, type |-> 0]
TableEntryCluster == [mainEntry |-> TableEntry, auxEntry |-> TableEntry]

isPvNode(entry) == bitAnd(entry.type, PV) # 0
getBoundType(entry) == bitAnd(entry.type, 6)

\* number of clusters of the table
s_tableSize == 1

\* the name of the slot probe() returns a pointer to
probe(table, hash) ==
  IF table[hash % s_tableSize].mainEntry.hash = hash THEN "mainEntry"
  ELSE IF table[hash % s_tableSize].auxEntry.hash = hash THEN "auxEntry"
  ELSE "nullptr"

\* the condition under which tryRecord replaces the main entry
replacesMain(mainEntry, rootAge, type, depth) ==
  \/ mainEntry.type = 0
  \/ mainEntry.age <= rootAge
  \/ depth > mainEntry.depth
  \/ /\ depth = mainEntry.depth
     /\ bitAnd(type, PV) >= bitAnd(mainEntry.type, PV)
     /\ bitAnd(type, 272) <= getBoundType(mainEntry)

\* the value tryRecord writes into the main entry
fixedMateValue(value, ply) ==
  IF isMateValue(value)
    THEN (IF value > MATE - 2 * MAX_DEPTH THEN I16(value + ply) ELSE I16(value - ply))
    ELSE value

\* the slot tryRecord writes: the main entry, the auxiliary entry or none
recordedSlot(table, rootAge, type, hash, depth) ==
  IF replacesMain(table[hash % s_tableSize].mainEntry, rootAge, type, depth) THEN "mainEntry"
  ELSE IF table[hash % s_tableSize].mainEntry.hash # hash THEN "auxEntry"
  ELSE "nullptr"

tryRecord(table, rootAge, type, hash, move, value, age, depth, ply) ==
  IF recordedSlot(table, rootAge, type, hash, depth) = "mainEntry"
    THEN [table EXCEPT ![hash % s_tableSize].mainEntry =
            [hash |-> hash, move |-> move, value |-> fixedMateValue(value, ply),
             age |-> age, depth |-> depth, type |-> type]]
  ELSE IF recordedSlot(table, rootAge, type, hash, depth) = "auxEntry"
    THEN [table EXCEPT ![hash % s_tableSize].auxEntry =
            [hash |-> hash, move |-> move, value |-> value,
             age |-> age, depth |-> depth, type |-> type]]
  ELSE table

\* search: may the value of the entry found be returned from the table
entryUsable(entry, depth, ply, NT) ==
  entry.depth >= depth /\ ply # 0 /\ (isPvNode(entry) \/ NT # PV)

\* search: the value of the entry with the mate distance fixed for the ply of the probing node
probedValue(entry, ply) ==
  IF isMateValue(entry.value)
    THEN (IF entry.value > MATE - 2 * MAX_DEPTH THEN I16(entry.value - ply)
          ELSE IF entry.value < -MATE + 2 * MAX_DEPTH THEN I16(entry.value + ply)
          ELSE entry.value)
    ELSE entry.value

\* search: the probe of the table on entering a node at ply `ply` with `depth` left:
\* the slot found, whether its value may be used, and the value with the distance fixed
searchProbe(table, hash, depth, ply, NT) ==
  IF probe(table, hash) = "nullptr"
    THEN [slot |-> "nullptr", usable |-> FALSE, value |-> 0]
  ELSE IF entryUsable(table[hash % s_tableSize][probe(table, hash)], depth, ply, NT)
    THEN [slot |-> probe(table, hash), usable |-> TRUE,
          value |-> probedValue(table[hash % s_tableSize][probe(table, hash)], ply)]
  ELSE [slot |-> probe(table, hash), usable |-> FALSE, value |-> 0]

\* plies a game is played on from its start position
MaxPly == 2

(***************************************************************************)
(* State                                                                   *)
(***************************************************************************)
VARIABLES
  g_board,        \* Engine.cpp: the game board
  g_moveHistory,  \* Engine.cpp: the moves made since newGame
  g_fen,          \* the FEN the game was started from
  pending,        \* the move made on the board and not yet kept or unmade
  snapshot,       \* history variable: the board before the pending move was made
  s_table,        \* TranspositionTable: the clusters
  s_rootAge,      \* TranspositionTable: the move count of the root of the search
  ttWritten,      \* history variable: per slot, the value and ply tryRecord was called with
  seeCall,        \* the last call of Board::SEE: the move, the value returned, the value expected
  g_mustStop,     \* Search.cpp: the stop flag
  g_rootDepth,    \* Search.cpp: the depth of the current iteration
  g_limits,       \* Search.cpp: the limits of the search
  g_nodesCount,   \* Search.cpp: the moves made during the current search
  g_searchStacks, \* Search.cpp: per ply, the killer moves
  g_PVs,          \* Search.cpp: per ply, the principal variation
  s_historyTries, \* MovePicker.cpp: per piece and target square, the tries counted
  s_historySuccesses, \* MovePicker.cpp: per piece and target square, the cuts counted
  rs,             \* rootSearch: its position and its local variables
  stack,          \* the active invocations of search and quiescence, the innermost last
  link,           \* the call about to be entered, or the value just returned
  trace,          \* history variable: the last completed iteration, and where the flag was set
  perftStack,     \* the active invocations of perft, the innermost last
  perftReturned,  \* whether the outermost perft has returned, and its result
  evalCall,       \* the last call of eval: the value of the board and of its mirror image
  lastCall,       \* the last call of a function of the board library: its arguments and its result
  options,        \* Options.cpp: g_isIllegalPosition, g_forceMode
  session         \* the protocol in use, and history: the last command and how the last position command ended

playVars == <<g_board, g_moveHistory, g_fen, pending, snapshot>>
ttVars == <<s_table, s_rootAge, ttWritten>>
seeVars == <<seeCall>>
searchVars == <<g_mustStop, g_rootDepth, g_limits, g_nodesCount, g_searchStacks, g_PVs,
                s_historyTries, s_historySuccesses, rs, stack, link, trace>>
perftVars == <<perftStack, perftReturned>>
evalVars == <<evalCall>>
callVars == <<lastCall>>
engineVars == <<options, session>>
otherVars == <<perftVars, evalVars, callVars, engineVars>>
\* the variables perft does not touch, the board apart
exceptPerft == <<ttVars, seeVars, searchVars, evalVars, callVars, engineVars>>
\* the variables eval does not touch
exceptEval == <<playVars, ttVars, seeVars, searchVars, perftVars, callVars, engineVars>>
\* the variables a call of a library function does not touch
exceptCall == <<ttVars, seeVars, searchVars, perftVars, evalVars, engineVars>>
\* the variables a command of the engine does not touch, the game apart
exceptEngine == <<ttVars, seeVars, searchVars, perftVars, evalVars, callVars>>
vars == <<playVars, ttVars, seeVars, searchVars, otherVars>>

\* the variables no move of the game touches
exceptPlay == <<ttVars, seeVars, searchVars, otherVars>>
\* the variables the transposition table does not touch
exceptTT == <<playVars, seeVars, searchVars, otherVars>>

\* no game loaded
PlayIdle ==
  /\ g_fen = <<>>
  /\ g_board = Board
  /\ g_moveHistory = <<>>
  /\ pending = [move |-> nullMove, legal |-> FALSE, modes |-> {}, phase |-> "idle"]
  /\ snapshot = Board

NotWritten == [value |-> 0, ply |-> 0]

NoCall == [kind |-> "none", m |-> nullMove, see |-> 0, expectedValue |-> 0]

\* Board::SEE not called
SEEIdle == seeCall = NoCall

\* the table after init()
TTIdle ==
  /\ s_table = [i \in 0..(s_tableSize - 1) |-> TableEntryCluster]
  /\ s_rootAge = 0
  /\ ttWritten = [i \in 0..(s_tableSize - 1) |-> [mainEntry |-> NotWritten, auxEntry |-> NotWritten]]

NoMove == [move |-> nullMove, legal |-> FALSE, modes |-> {}, phase |-> "idle"]

SearchResult == [best |-> nullMove, value |-> 0]

NoLink == [kind |-> "none", fn |-> "", NT |-> 0, alpha |-> 0, beta |-> 0, depth |-> 0, ply |-> 0,
           qply |-> 0, value |-> 0]

\* the local variables of rootSearch, and where it is: "idle", "start", "loop", "call", "returned"
RootLocals ==
  [pc |-> "idle", lastBest |-> nullMove, lastResult |-> 0, alpha |-> 0, beta |-> 0, result |-> 0,
   failedLowCnt |-> 0, failedHighCnt |-> 0, returned |-> SearchResult]

NotReturned == [returned |-> FALSE, result |-> 0]

\* perft not called
PerftIdle ==
  /\ perftStack = <<>>
  /\ perftReturned = NotReturned

NoEval == [kind |-> "none", value |-> 0, mirrored |-> 0]

\* eval not called
EvalIdle == evalCall = NoEval

NoLastCall == [kind |-> "none"]

\* no library function called
CallIdle == lastCall = NoLastCall

\* Options.cpp: the options as defined
DefaultOptions == [g_isIllegalPosition |-> FALSE, g_forceMode |-> FALSE]

NoSession ==
  [mode |-> "none", command |-> "none", positionFailed |-> FALSE, loaded |-> Board, commands |-> 0]

\* the engine not started
EngineIdle == options = DefaultOptions /\ session = NoSession

\* nothing else called
OtherIdle == PerftIdle /\ EvalIdle /\ CallIdle /\ EngineIdle

\* rootSearch not called
SearchIdle ==
  /\ g_mustStop = FALSE
  /\ g_rootDepth = 0
  /\ g_limits = [m_depthLimit |-> 0]
  /\ g_nodesCount = 0
  /\ g_searchStacks = <<>>
  /\ g_PVs = <<>>
  /\ s_historyTries = <<>>
  /\ s_historySuccesses = <<>>
  /\ rs = RootLocals
  /\ stack = <<>>
  /\ link = NoLink
  /\ trace = [completed |-> SearchResult, stopDepth |-> 0, stopAt |-> {}]

(***************************************************************************)
(* Playing: newGame, then moves made and unmade the way search, perft and  *)
(* the engine's move/undo commands do.                                     *)
(***************************************************************************)
PlayInit ==
  /\ g_fen \in StartFENs
  /\ g_board = fromFEN(g_fen).board
  /\ g_moveHistory = <<>>
  /\ pending = NoMove
  /\ snapshot = g_board
  /\ TTIdle
  /\ SEEIdle
  /\ SearchIdle
  /\ OtherIdle

movesOf(b, mode) ==
  UNION {{ms[k] : k \in 1..Len(ms)} : ms \in {generateMoves(b, mode, <<>>)}}

\* the modes generateMoves may be called in: QUIET_CHECKS asserts the side is not in
\* check, CHECK_EVASIONS reads the first check giver
modesOf(b) ==
  {mode \in GenerationModes : /\ mode = QUIET_CHECKS => ~isInCheck(b)
                              /\ mode = CHECK_EVASIONS => isInCheck(b)}

\* makeMove of a generated (pseudo-legal) move
MakeMove ==
  /\ pending.phase = "idle"
  /\ \E generated \in {[mode \in modesOf(g_board) |-> movesOf(g_board, mode)]} :
       \E m \in UNION {generated[mode] : mode \in DOMAIN generated} :
         /\ pending' = [move |-> m, legal |-> isLegal(g_board, m),
                        modes |-> {mode \in DOMAIN generated : m \in generated[mode]},
                        phase |-> "made"]
         /\ g_board' = makeMove(g_board, m)
  /\ UNCHANGED <<g_moveHistory, g_fen, snapshot>>
  /\ UNCHANGED exceptPlay

\* unmakeMove of the move just made
UnmakeMove ==
  /\ pending.phase = "made"
  /\ g_board' = unmakeMove(g_board, pending.move)
  /\ pending' = [pending EXCEPT !.phase = "unmade"]
  /\ UNCHANGED <<g_moveHistory, g_fen, snapshot>>
  /\ UNCHANGED exceptPlay

\* the caller goes on to its next move
NextMove ==
  /\ pending.phase = "unmade"
  /\ pending' = NoMove
  /\ snapshot' = g_board
  /\ UNCHANGED <<g_board, g_moveHistory, g_fen>>
  /\ UNCHANGED exceptPlay

\* the game goes on from the position after a legal move
KeepMove ==
  /\ pending.phase = "made"
  /\ pending.legal
  /\ Len(g_moveHistory) < MaxPly
  /\ g_moveHistory' = Append(g_moveHistory, pending.move)
  /\ pending' = NoMove
  /\ snapshot' = g_board
  /\ UNCHANGED <<g_board, g_fen>>
  /\ UNCHANGED exceptPlay

PlayNext == MakeMove \/ UnmakeMove \/ NextMove \/ KeepMove
SpecPlay == PlayInit /\ [][PlayNext]_vars

(***************************************************************************)
(* Properties of playing                                                   *)
(***************************************************************************)

\* C1: after makeMove(m) followed by unmakeMove(m) of any generated move, the whole
\* board (square array, piece and colour bitboards, material, PST score, side,
\* move count, state stack and every StateInfo field) equals the board before.
MakeUnmakeInvolution == pending.phase = "unmade" => g_board = snapshot

\* C1 witness: an en-passant capture has been made and unmade
MakeUnmakeEnpassantDone ==
  /\ pending.phase = "unmade"
  /\ getMoveType(pending.move) = ENPASSANT
  /\ g_board = snapshot

\* C2: after a generated move that isLegal accepted, the king of the side that
\* moved is not attacked by any enemy piece.
LegalMoveKeepsKingSafe ==
  (pending.phase = "made" /\ pending.legal) =>
    computeAttackersOf(g_board, g_board.m_side, king(g_board, getOpposite(g_board.m_side)),
                       allPieces(g_board)) = {}

\* C2 witness: a legal move of a check blocker, made while the side was in check
PinnedSideEvadedCheck ==
  /\ pending.phase = "made"
  /\ pending.legal
  /\ isInCheck(snapshot)
  /\ checkBlockers(snapshot, snapshot.m_side) \cap byColor(snapshot, snapshot.m_side) # {}
  /\ computeAttackersOf(g_board, g_board.m_side, king(g_board, getOpposite(g_board.m_side)),
                        allPieces(g_board)) = {}

\* C3 (as stated): after any sequence of makeMove calls, computeHash of the board
\* equals computeHash of the board loaded from the FEN of that position.
HashMatchesReloadedFEN ==
  (pending.phase = "made" \/ Len(g_moveHistory) > 0) =>
    computeHash(g_board) = computeHash(fromFEN(toFEN(g_board)).board)

sameFENFields(P, Q) ==
  /\ Q.m_board = P.m_board
  /\ Q.m_side = P.m_side
  /\ bitAnd(state(Q).castleRight, 15) = bitAnd(state(P).castleRight, 15)
  /\ state(Q).ep = state(P).ep
  /\ state(Q).fiftyRule = state(P).fiftyRule
  /\ Q.m_moveCount = P.m_moveCount

\* C4 (as stated): fromFEN(toFEN(P)) succeeds and reproduces placement, side, castling
\* rights, en-passant square, fifty-move counter and move count of every position P
\* reached by makeMove, and toFEN(fromFEN(s)) = s for the complete FEN s = toFEN(P).
FENRoundTrip ==
  pending.phase # "unmade" =>
    \A r \in {fromFEN(toFEN(g_board))} :
       /\ r.success = "true"
       /\ sameFENFields(g_board, r.board)
       /\ toFEN(r.board) = toFEN(g_board)

(***************************************************************************)
(* Repetition: a cycle of reversible moves, each side moving a piece out   *)
(* and back, made again and again from a loaded position.                  *)
(***************************************************************************)
\* cycles of four plies made in a row
MaxCycles == 4

CycleInit == PlayInit

\* the reversible legal moves of the position: a piece (not a pawn) to an empty square
reversibleMoves(b) ==
  {m \in movesOf(b, ALL_MOVES) : /\ getMoveType(m) = SIMPLE
                                 /\ b.m_board[getTo(m)] = NONE
                                 /\ getType(b.m_board[getFrom(m)]) # PAWN
                                 /\ isLegal(b, m)}

\* a side moves a piece out
CycleOut ==
  /\ Len(g_moveHistory) < 2
  /\ \E m \in reversibleMoves(g_board) :
       /\ g_board' = makeMove(g_board, m)
       /\ g_moveHistory' = Append(g_moveHistory, m)
  /\ UNCHANGED <<g_fen, pending, snapshot>>
  /\ UNCHANGED exceptPlay

\* a side moves its piece back, or the cycle is made once more
CycleAgain ==
  /\ Len(g_moveHistory) >= 2
  /\ Len(g_moveHistory) < 4 * MaxCycles
  /\ \E m \in reversibleMoves(g_board) :
       /\ getFrom(m) = getTo(g_moveHistory[Len(g_moveHistory) - 1])
       /\ getTo(m) = getFrom(g_moveHistory[Len(g_moveHistory) - 1])
       /\ g_board' = makeMove(g_board, m)
       /\ g_moveHistory' = Append(g_moveHistory, m)
  /\ UNCHANGED <<g_fen, pending, snapshot>>
  /\ UNCHANGED exceptPlay

CycleNext == CycleOut \/ CycleAgain
SpecCycle == CycleInit /\ [][CycleNext]_vars

\* C5: after a cycle of reversible moves (each side moves a piece out and back) has
\* been made four times in a row from a loaded position, isDraw(0) is true.
FourCyclesAreDraw == Len(g_moveHistory) = 16 => isDraw(g_board, 0)

\* C5 witness: four cycles made, and neither material nor the fifty-move rule draws
FourCyclesMadeByRepetition ==
  /\ Len(g_moveHistory) = 16
  /\ ~lowMaterialDraw(g_board)
  /\ ~fiftyRuleDraw(g_board)
  /\ repetitionDraw(g_board, 0)

(***************************************************************************)
(* Transposition table: search records the value of a node with tryRecord  *)
(* and probes the table when it enters a node.                             *)
(***************************************************************************)
MaxHash == 2
MaxAge == 1
MaxTTDepth == 2
MaxTTPly == 1

\* values search passes at plies up to MaxTTPly + 1: a mate for the side to move,
\* a mate against it, an ordinary value
TTValues == {MATE - 5, -MATE + 4, 50}
TTTypes == {EXACT + NON_PV, EXACT + PV}

TTInit == PlayIdle /\ TTIdle /\ SEEIdle /\ SearchIdle /\ OtherIdle

\* rootSearch: setRootAge(board.moveCount())
SetRootAge ==
  /\ \E age \in 0..MaxAge : age # s_rootAge /\ s_rootAge' = age
  /\ UNCHANGED <<s_table, ttWritten>>
  /\ UNCHANGED exceptTT

\* search: tryRecord at the end of a node at ply `ply`; its move count `age` is that of
\* the root plus the moves (null moves not counted) made down to the node
TryRecord ==
  /\ \E type \in TTTypes, hash \in 1..MaxHash, value \in TTValues,
        depth \in 1..MaxTTDepth, ply \in 0..MaxTTPly :
     \E age \in s_rootAge..(s_rootAge + ply) :
       /\ s_table' = tryRecord(s_table, s_rootAge, type, hash, nullMove, value, age, depth, ply)
       /\ ttWritten' =
            IF recordedSlot(s_table, s_rootAge, type, hash, depth) = "nullptr" THEN ttWritten
            ELSE [ttWritten EXCEPT ![hash % s_tableSize][recordedSlot(s_table, s_rootAge, type, hash, depth)] =
                    [value |-> value, ply |-> ply]]
  /\ UNCHANGED s_rootAge
  /\ UNCHANGED exceptTT

TTNext == SetRootAge \/ TryRecord
SpecTT == TTInit /\ [][TTNext]_vars

\* the value a mate value written at ply `written.ply` denotes at ply `ply`
mateValueAt(written, ply) ==
  IF written.value > 0 THEN written.value + written.ply - ply
  ELSE written.value - written.ply + ply

\* the probes search makes of the table
TTProbes == [hash : 1..MaxHash, depth : 1..MaxTTDepth, ply : 0..(MaxTTPly + 1), NT : {NON_PV, PV}]

\* C8 (as stated): a mate value v recorded at ply p and read back by search at ply p'
\* is used as v + p - p' (mate for the side to move) or v - p + p' (mate against it),
\* whichever slot of the cluster it was written to.
MateDistanceStableInBothSlots ==
  \A q \in TTProbes :
    \A r \in {searchProbe(s_table, q.hash, q.depth, q.ply, q.NT)} :
      (r.usable /\ isMateValue(ttWritten[q.hash % s_tableSize][r.slot].value)) =>
        r.value = mateValueAt(ttWritten[q.hash % s_tableSize][r.slot], q.ply)

(***************************************************************************)
(* Board::SEE : static exchange evaluation                                 *)
(***************************************************************************)
\* the attackers of `side` that may capture: check blockers are left out while a
\* pinner of the other side is on the board
seeCurrentAttackers(b, side, occ, attackers) ==
  IF occ \cap pinners(b, getOpposite(side)) # {}
    THEN ((attackers \cap occ) \cap byColor(b, side)) \ checkBlockers(b, side)
    ELSE (attackers \cap occ) \cap byColor(b, side)

\* the type of the least valuable attacker; KING when no other piece attacks
seeLeastValuable(b, side, currentAttackers) ==
  IF currentAttackers \cap byPiece(b, Piece(side, PAWN)) # {} THEN PAWN
  ELSE IF currentAttackers \cap byPiece(b, Piece(side, KNIGHT)) # {} THEN KNIGHT
  ELSE IF currentAttackers \cap byPiece(b, Piece(side, BISHOP)) # {} THEN BISHOP
  ELSE IF currentAttackers \cap byPiece(b, Piece(side, ROOK)) # {} THEN ROOK
  ELSE IF currentAttackers \cap byPiece(b, Piece(side, QUEEN)) # {} THEN QUEEN
  ELSE KING

\* the attackers uncovered when a piece of type pt has left for the square `to`
seeUncovered(b, pt, to, occ) ==
  (IF pt \in {PAWN, BISHOP, QUEEN}
     THEN attacksOf(BISHOP, to, occ) \cap (bishopsAndQueens(b, WHITE) \cup bishopsAndQueens(b, BLACK))
     ELSE {})
  \cup (IF pt \in {ROOK, QUEEN}
          THEN attacksOf(ROOK, to, occ) \cap (rooksAndQueens(b, WHITE) \cup rooksAndQueens(b, BLACK))
          ELSE {})

RECURSIVE seeLoop(_, _, _, _, _, _, _, _, _)
\* a capture by a piece of type pt other than the king, standing on `sq`
seeCapture(b, to, side, occ, attackers, pt, sq, result, modifier, valuesArr) ==
  seeLoop(b, to, side, occ \ {sq}, attackers \cup seeUncovered(b, pt, to, occ \ {sq}),
          result, SIMPLIFIED_PIECE_VALUES(Piece(WHITE, pt)), modifier, Append(valuesArr, result))

\* one round of the loop for the side that is to capture
seeRound(b, to, side, occ, attackers, currentAttackers, pt, result, nextLoss, modifier, valuesArr) ==
  IF currentAttackers = {} THEN valuesArr
  ELSE IF pt # KING
    THEN seeCapture(b, to, side, occ, attackers, pt,
                    lsb(currentAttackers \cap byPiece(b, Piece(side, pt))),
                    I16(result + modifier * nextLoss), modifier, valuesArr)
  ELSE IF (attackers \cap byColor(b, getOpposite(side))) \cap occ = {}
    THEN Append(valuesArr,
                IF currentAttackers \cap byPiece(b, Piece(side, KING)) # {}
                  THEN I16(result + modifier * nextLoss) ELSE result)
  ELSE valuesArr

\* the while loop; `side` is the side that captured last
seeLoop(b, to, side, occ, attackers, result, nextLoss, modifier, valuesArr) ==
  seeRound(b, to, getOpposite(side), occ, attackers \cap occ,
           seeCurrentAttackers(b, getOpposite(side), occ, attackers),
           seeLeastValuable(b, getOpposite(side), seeCurrentAttackers(b, getOpposite(side), occ, attackers)),
           result, nextLoss, -modifier, valuesArr)

\* the final loop over valuesArr[i], i counted from 0
RECURSIVE seeFold(_)
seeFold(valuesArr) ==
  IF Len(valuesArr) = 1 THEN valuesArr[1]
  ELSE seeFold([SubSeq(valuesArr, 1, Len(valuesArr) - 1) EXCEPT ![Len(valuesArr) - 1] =
                  IF (Len(valuesArr) - 1) % 2 = 1
                    THEN Min(valuesArr[Len(valuesArr) - 1], valuesArr[Len(valuesArr)])
                    ELSE Max(valuesArr[Len(valuesArr) - 1], valuesArr[Len(valuesArr)])])

seeExchange(b, to, occ, result, nextLoss) ==
  seeFold(seeLoop(b, to, b.m_side, occ, computeAllAttackersOf(b, to, occ), result, nextLoss, 1, <<result>>))

SEE(b, m) ==
  IF getMoveType(m) = PROMOTION
    THEN seeExchange(b, getTo(m), allPieces(b) \ {getFrom(m)},
                     I16(SIMPLIFIED_PIECE_VALUES(b.m_board[getTo(m)])
                         + SIMPLIFIED_PIECE_VALUES(Piece(WHITE, getPromotedPiece(m)))
                         - SIMPLIFIED_PIECE_VALUES(Piece(WHITE, PAWN))),
                     SIMPLIFIED_PIECE_VALUES(Piece(WHITE, getPromotedPiece(m))))
  ELSE IF getMoveType(m) = SIMPLE
    THEN seeExchange(b, getTo(m), allPieces(b) \ {getFrom(m)},
                     SIMPLIFIED_PIECE_VALUES(b.m_board[getTo(m)]),
                     SIMPLIFIED_PIECE_VALUES(b.m_board[getFrom(m)]))
  ELSE IF getMoveType(m) = ENPASSANT
    THEN seeExchange(b, getTo(m),
                     (allPieces(b) \ {Square(getFile(getTo(m)), getRank(getFrom(m)))}) \ {getFrom(m)},
                     SIMPLIFIED_PIECE_VALUES(Piece(WHITE, PAWN)),
                     SIMPLIFIED_PIECE_VALUES(Piece(WHITE, PAWN)))
  ELSE 0

\* Board::makeMoveFromString: the move a string such as "c3f6" or "d7d8r" stands for
moveFromSquares(b, str, from, to, moves) ==
  IF from \notin byColor(b, b.m_side) \/ to \in byColor(b, b.m_side) \/ from = to THEN nullMove
  ELSE IF {k \in 1..Len(moves) : getFrom(moves[k]) = from /\ getTo(moves[k]) = to} = {} THEN nullMove
  ELSE IF ~isLegal(b, moves[lsb({k \in 1..Len(moves) : getFrom(moves[k]) = from /\ getTo(moves[k]) = to})])
    THEN nullMove
  ELSE IF getMoveType(moves[lsb({k \in 1..Len(moves) : getFrom(moves[k]) = from /\ getTo(moves[k]) = to})]) = PROMOTION
    THEN Move(from, to, PROMOTION, IF Len(str) > 4 THEN getType(fromFENChar(str[5])) ELSE KNIGHT)
  ELSE moves[lsb({k \in 1..Len(moves) : getFrom(moves[k]) = from /\ getTo(moves[k]) = to})]

makeMoveFromString(b, str) ==
  IF Len(str) < 4 /\ str # <<"0", "-", "0">> THEN nullMove
  ELSE IF str = <<"0", "-", "0">>
    THEN moveFromSquares(b, str, makeRelativeSquare(b.m_side, E1), makeRelativeSquare(b.m_side, G1),
                         generateMoves(b, ALL_MOVES, <<>>))
  ELSE IF str = <<"0", "-", "0", "-", "0">>
    THEN moveFromSquares(b, str, makeRelativeSquare(b.m_side, E1), makeRelativeSquare(b.m_side, C1),
                         generateMoves(b, ALL_MOVES, <<>>))
  ELSE moveFromSquares(b, str, fromChars(str[1], str[2]), fromChars(str[3], str[4]),
                       generateMoves(b, ALL_MOVES, <<>>))

\* the scenarios of the test BoardTest(SEE): position, move, expected value
SEE_TESTS ==
  <<
   \* 8/8/5R2/8/8/1kb5/8/2K5 b - - 0 1, c3f6
   [fen |-> <<"8", "/", "8", "/", "5", "R", "2", "/", "8", "/", "8", "/", "1", "k", "b",
           "5", "/", "8", "/", "2", "K", "5", " ", "b", " ", "-", " ", "-", " ", "0",
           " ", "1">>,
    moveStr |-> <<"c", "3", "f", "6">>,
    expectedValue |-> SIMPLIFIED_PIECE_VALUES(Piece(WHITE, ROOK))],
   \* 8/2k5/3b4/4n3/6N1/8/5K2/8 w - - 0 1, g4e5
   [fen |-> <<"8", "/", "2", "k", "5", "/", "3", "b", "4", "/", "4", "n", "3", "/", "6",
           "N", "1", "/", "8", "/", "5", "K", "2", "/", "8", " ", "w", " ", "-", " ",
           "-", " ", "0", " ", "1">>,
    moveStr |-> <<"g", "4", "e", "5">>,
    expectedValue |-> 0],
   \* k7/3q4/8/8/3Q4/4K3/8/8 b - - 0 1, d7d4
   [fen |-> <<"k", "7", "/", "3", "q", "4", "/", "8", "/", "8", "/", "3", "Q", "4", "/",
           "4", "K", "3", "/", "8", "/", "8", " ", "b", " ", "-", " ", "-", " ", "0",
           " ", "1">>,
    moveStr |-> <<"d", "7", "d", "4">>,
    expectedValue |-> 0],
   \* k7/3q4/4n3/8/3Q4/4K3/8/8 b - - 0 1, d7d4
   [fen |-> <<"k", "7", "/", "3", "q", "4", "/", "4", "n", "3", "/", "8", "/", "3", "Q",
           "4", "/", "4", "K", "3", "/", "8", "/", "8", " ", "b", " ", "-", " ", "-",
           " ", "0", " ", "1">>,
    moveStr |-> <<"d", "7", "d", "4">>,
    expectedValue |-> SIMPLIFIED_PIECE_VALUES(Piece(WHITE, QUEEN))],
   \* 1k6/5n2/8/4p3/3P4/8/1B6/2K5 w - - 0 1, d4e5
   [fen |-> <<"1", "k", "6", "/", "5", "n", "2", "/", "8", "/", "4", "p", "3", "/", "3",
           "P", "4", "/", "8", "/", "1", "B", "6", "/", "2", "K", "5", " ", "w", " ",
           "-", " ", "-", " ", "0", " ", "1">>,
    moveStr |-> <<"d", "4", "e", "5">>,
    expectedValue |-> SIMPLIFIED_PIECE_VALUES(Piece(BLACK, PAWN))],
   \* 2r3k1/2r5/2r5/8/8/2R5/2R5/2R3K1 w - - 0 1, c3c6
   [fen |-> <<"2", "r", "3", "k", "1", "/", "2", "r", "5", "/", "2", "r", "5", "/", "8",
           "/", "8", "/", "2", "R", "5", "/", "2", "R", "5", "/", "2", "R", "3", "K",
           "1", " ", "w", " ", "-", " ", "-", " ", "0", " ", "1">>,
    moveStr |-> <<"c", "3", "c", "6">>,
    expectedValue |-> SIMPLIFIED_PIECE_VALUES(Piece(BLACK, ROOK))],
   \* 6k1/7p/8/8/8/8/2Q5/6K1 w - - 0 1, c2h7
   [fen |-> <<"6", "k", "1", "/", "7", "p", "/", "8", "/", "8", "/", "8", "/", "8", "/",
           "2", "Q", "5", "/", "6", "K", "1", " ", "w", " ", "-", " ", "-", " ", "0",
           " ", "1">>,
    moveStr |-> <<"c", "2", "h", "7">>,
    expectedValue |-> SIMPLIFIED_PIECE_VALUES(Piece(BLACK, PAWN)) - SIMPLIFIED_PIECE_VALUES(Piece(WHITE, QUEEN))],
   \* 8/3P4/8/8/8/k7/8/1K6 w - - 0 1, d7d8r
   [fen |-> <<"8", "/", "3", "P", "4", "/", "8", "/", "8", "/", "8", "/", "k", "7", "/",
           "8", "/", "1", "K", "6", " ", "w", " ", "-", " ", "-", " ", "0", " ", "1">>,
    moveStr |-> <<"d", "7", "d", "8", "r">>,
    expectedValue |-> SIMPLIFIED_PIECE_VALUES(Piece(WHITE, ROOK)) - SIMPLIFIED_PIECE_VALUES(Piece(WHITE, PAWN))],
   \* 2n5/3P4/8/8/8/k7/8/1K6 w - - 0 1, d7c8n
   [fen |-> <<"2", "n", "5", "/", "3", "P", "4", "/", "8", "/", "8", "/", "8", "/", "k",
           "7", "/", "8", "/", "1", "K", "6", " ", "w", " ", "-", " ", "-", " ", "0",
           " ", "1">>,
    moveStr |-> <<"d", "7", "c", "8", "n">>,
    expectedValue |-> SIMPLIFIED_PIECE_VALUES(Piece(WHITE, KNIGHT)) * 2 - SIMPLIFIED_PIECE_VALUES(Piece(WHITE, PAWN))],
   \* rnbqkbnr/pp1ppppp/8/8/2pPP3/5P2/PPP3PP/RNBQKBNR b KQkq d3 0 1, c4d3
   [fen |-> <<"r", "n", "b", "q", "k", "b", "n", "r", "/", "p", "p", "1", "p", "p", "p",
           "p", "p", "/", "8", "/", "8", "/", "2", "p", "P", "P", "3", "/", "5", "P",
           "2", "/", "P", "P", "P", "3", "P", "P", "/", "R", "N", "B", "Q", "K", "B",
           "N", "R", " ", "b", " ", "K", "Q", "k", "q", " ", "d", "3", " ", "0", " ",
           "1">>,
    moveStr |-> <<"c", "4", "d", "3">>,
    expectedValue |-> 0]
  >>

\* a position in which two white pieces are pinned by two black pieces
\* 4r2k/8/8/q2p4/2P5/2N5/4B3/4K3 w - - 0 1
FEN_TWO_PINS == <<"4", "r", "2", "k", "/", "8", "/", "8", "/", "q", "2", "p", "4", "/",
    "2", "P", "5", "/", "2", "N", "5", "/", "4", "B", "3", "/", "4", "K", "3", " ", "w",
    " ", "-", " ", "-", " ", "0", " ", "1">>

(***************************************************************************)
(* The exchange on a square, played out: the sides capture in turn with    *)
(* their least valuable attacker that is not pinned, and a side stops when *)
(* capturing on would lose material.  `rule` says when a check blocker is  *)
(* taken as pinned: "theirs" while the piece pinning it is on the board,   *)
(* "any" while any pinner of the other side is on the board.               *)
(***************************************************************************)
exchangeAvailable(b, side, occ, attackers, rule) ==
  {sq \in (attackers \cap occ) \cap byColor(b, side) :
     ~ /\ sq \in checkBlockers(b, side)
       /\ \E p \in pinners(b, getOpposite(side)) \cap occ :
            rule = "any" \/ sq \in betweenBits(king(b, side), p)}

RECURSIVE exchangeGain(_, _, _, _, _, _, _)
exchangeBy(b, to, side, occ, attackers, victim, rule, available, pt) ==
  IF available = {} THEN 0
  ELSE IF pt = KING /\ (attackers \cap occ) \cap byColor(b, getOpposite(side)) # {} THEN 0
  ELSE Max(0, victim - exchangeGain(b, to, getOpposite(side),
                                    occ \ {lsb(available \cap byPiece(b, Piece(side, pt)))},
                                    (attackers \cap occ)
                                      \cup seeUncovered(b, pt, to, occ \ {lsb(available \cap byPiece(b, Piece(side, pt)))}),
                                    SIMPLIFIED_PIECE_VALUES(Piece(side, pt)), rule))

\* the most the side to capture can win on `to`, where a piece worth `victim` stands
exchangeGain(b, to, side, occ, attackers, victim, rule) ==
  exchangeBy(b, to, side, occ, attackers, victim, rule,
             exchangeAvailable(b, side, occ, attackers, rule),
             seeLeastValuable(b, side, exchangeAvailable(b, side, occ, attackers, rule)))

exchangeStart(b, to, occ, rule, gain, mover) ==
  gain - exchangeGain(b, to, getOpposite(b.m_side), occ, computeAllAttackersOf(b, to, occ), mover, rule)

\* the material balance of the exchange the move m starts
exchangeBalance(b, m, rule) ==
  IF getMoveType(m) = CASTLE THEN 0
  ELSE exchangeStart(b, getTo(m),
         (allPieces(b) \ {getFrom(m)})
            \ (IF getMoveType(m) = ENPASSANT THEN {Square(getFile(getTo(m)), getRank(getFrom(m)))} ELSE {}),
         rule,
         (IF getMoveType(m) = ENPASSANT THEN SIMPLIFIED_PIECE_VALUES(Piece(WHITE, PAWN))
          ELSE SIMPLIFIED_PIECE_VALUES(b.m_board[getTo(m)]))
           + (IF getMoveType(m) = PROMOTION
                THEN SIMPLIFIED_PIECE_VALUES(Piece(WHITE, getPromotedPiece(m)))
                     - SIMPLIFIED_PIECE_VALUES(Piece(WHITE, PAWN))
                ELSE 0),
         IF getMoveType(m) = PROMOTION THEN SIMPLIFIED_PIECE_VALUES(Piece(WHITE, getPromotedPiece(m)))
         ELSE SIMPLIFIED_PIECE_VALUES(b.m_board[getFrom(m)]))

(***************************************************************************)
(* SEE called by the test BoardTest(SEE) and by search for the legal moves *)
(* of a position.                                                          *)
(***************************************************************************)
\* plies played on from a start position before SEE is called
MaxSEEPly == 1

SEEStartFENs == {SEE_TESTS[i].fen : i \in 1..Len(SEE_TESTS)} \cup {FEN_TWO_PINS}

SEEInit ==
  /\ g_fen \in SEEStartFENs
  /\ g_board = fromFEN(g_fen).board
  /\ g_moveHistory = <<>>
  /\ pending = NoMove
  /\ snapshot = g_board
  /\ TTIdle
  /\ SEEIdle
  /\ SearchIdle
  /\ OtherIdle

\* the body of the loop of test<7>
RunSEETest ==
  /\ g_moveHistory = <<>>
  /\ \E i \in 1..Len(SEE_TESTS) :
       /\ SEE_TESTS[i].fen = g_fen
       /\ \E m \in {makeMoveFromString(g_board, SEE_TESTS[i].moveStr)} :
            seeCall' = [kind |-> "test", m |-> m, see |-> SEE(g_board, m),
                        expectedValue |-> SEE_TESTS[i].expectedValue]
  /\ seeCall = NoCall
  /\ UNCHANGED playVars
  /\ UNCHANGED ttVars
  /\ UNCHANGED <<searchVars, otherVars>>

\* search and quiescence: board.SEE(m) for a legal move of the position
SearchSEE ==
  /\ \E m \in movesOf(g_board, ALL_MOVES) :
       /\ isLegal(g_board, m)
       /\ seeCall' = [kind |-> "search", m |-> m, see |-> SEE(g_board, m), expectedValue |-> 0]
  /\ seeCall = NoCall
  /\ UNCHANGED playVars
  /\ UNCHANGED ttVars
  /\ UNCHANGED <<searchVars, otherVars>>

\* a legal move is made on the board
SEEPlay ==
  /\ Len(g_moveHistory) < MaxSEEPly
  /\ \E m \in movesOf(g_board, ALL_MOVES) :
       /\ isLegal(g_board, m)
       /\ g_board' = makeMove(g_board, m)
       /\ g_moveHistory' = Append(g_moveHistory, m)
  /\ seeCall' = NoCall
  /\ UNCHANGED <<g_fen, pending, snapshot>>
  /\ UNCHANGED ttVars
  /\ UNCHANGED <<searchVars, otherVars>>

SEENext == RunSEETest \/ SearchSEE \/ SEEPlay
SpecSEE == SEEInit /\ [][SEENext]_vars

\* C10 (as stated): SEE(m) is the material balance of the exchange on m's destination
\* in which the sides recapture in turn with their least valuable attacker, a pinned
\* attacker left out while its pinner is on the board, and each side may stop; and
\* SEE returns the listed value in each of the ten scenarios.
SEEIsExchangeBalance ==
  seeCall.kind # "none" =>
    /\ seeCall.see = exchangeBalance(g_board, seeCall.m, "theirs")
    /\ seeCall.kind = "test" => seeCall.see = seeCall.expectedValue

\* what holds instead: the balance of the exchange in which every check blocker of a
\* side is left out while any pinner of the other side is on the board
SEEIsExchangeBalanceAnyPinner ==
  seeCall.kind # "none" =>
    /\ seeCall.see = exchangeBalance(g_board, seeCall.m, "any")
    /\ seeCall.kind = "test" => seeCall.see = seeCall.expectedValue

(***************************************************************************)
(* Search.cpp: rootSearch, iterative deepening with an aspiration window   *)
(***************************************************************************)
WINDOW_WIDTH == <<35, 110, 450, 2 * INF>>

\* variant whose widths stop growing at the third
aspirationAlpha_capped(result, failedLowCnt) ==
  I16(Max(-INF, result - WINDOW_WIDTH[Min(failedLowCnt, 2) + 1]))

aspirationAlpha(result, failedLowCnt) == I16(Max(-INF, result - WINDOW_WIDTH[failedLowCnt + 1]))
aspirationBeta(result, failedHighCnt) == I16(Min(INF, result + WINDOW_WIDTH[failedHighCnt + 1]))

Call(fn, NT, alpha, beta, depth, ply, qply) ==
  [kind |-> "call", fn |-> fn, NT |-> NT, alpha |-> alpha, beta |-> beta, depth |-> depth, ply |-> ply,
   qply |-> qply, value |-> 0]
Return(value) == [NoLink EXCEPT !.kind = "ret", !.value = value]

\* the tables of the search: the node counter, the killers and the history tables
searchTables == <<g_nodesCount, g_searchStacks, s_historyTries, s_historySuccesses>>

\* a table indexed by ply or by piece and square, kept for the indices written; the
\* others hold their zeroed value
tableAt(table, index, zeroed) == IF index \in DOMAIN table THEN table[index] ELSE zeroed
tablePut(table, index, value) ==
  [i \in DOMAIN table \cup {index} |-> IF i = index THEN value ELSE table[i]]

\* g_PVs[ply]
pvAt(pvs, ply) == tableAt(pvs, ply, <<>>)

\* MovePicker::resetHistoryTables
HISTORY_RENEWAL_SHIFT == 3
resetHistoryTable(table) == [i \in DOMAIN table |-> table[i] \div (2 ^ HISTORY_RENEWAL_SHIFT)]

\* g_PVs[0][0]; an empty list reads as the null move
pvFirst(pv) == IF pv = <<>> THEN nullMove ELSE pv[1]

\* rootSearch entered for the position of `fen`
RootEntered(fen, depthLimit) ==
  /\ g_fen = fen
  /\ g_board = fromFEN(fen).board
  /\ g_moveHistory = <<>>
  /\ pending = NoMove
  /\ snapshot = g_board
  /\ TTIdle
  /\ SEEIdle
  /\ g_mustStop \in BOOLEAN
  /\ g_rootDepth = 0
  /\ g_limits = [m_depthLimit |-> depthLimit]
  /\ g_nodesCount = 0
  /\ g_searchStacks = <<>>
  /\ g_PVs = <<>>
  /\ s_historyTries = <<>>
  /\ s_historySuccesses = <<>>
  /\ rs = [RootLocals EXCEPT !.pc = "start"]
  /\ stack = <<>>
  /\ link = NoLink
  /\ trace = [completed |-> SearchResult, stopDepth |-> 0, stopAt |-> {}]
  /\ OtherIdle

\* lines 90-104: initializing the search
RootStart ==
  /\ rs.pc = "start"
  /\ g_mustStop' = FALSE
  /\ g_rootDepth' = 0
  /\ s_rootAge' = g_board.m_moveCount % 65536
  /\ g_nodesCount' = 0
  /\ s_historyTries' = resetHistoryTable(s_historyTries)
  /\ s_historySuccesses' = resetHistoryTable(s_historySuccesses)
  /\ g_searchStacks' = <<>>
  /\ rs' = [RootLocals EXCEPT !.pc = "loop", !.alpha = -INF, !.beta = INF]
  /\ UNCHANGED <<g_limits, g_PVs, stack, link, trace>>
  /\ UNCHANGED <<s_table, ttWritten>>
  /\ UNCHANGED <<playVars, seeVars, otherVars>>

rootWindow(r, cnt) ==
  [r EXCEPT !.pc = "call", !.failedLowCnt = cnt, !.failedHighCnt = cnt,
            !.alpha = aspirationAlpha(r.result, cnt), !.beta = aspirationBeta(r.result, cnt)]

rootCall(r, depth) == Call("search", PV, r.alpha, r.beta, depth, 0, 0)

\* the result returned when the search was stopped or the depth limit is reached
stopResult_current(r, pv) == [best |-> pvFirst(pv), value |-> r.result]

stopResult(r, pv) == [best |-> r.lastBest, value |-> r.lastResult]

\* lines 107-117: the next iteration and its first window
RootIterate ==
  /\ rs.pc = "loop"
  /\ g_rootDepth' = g_rootDepth + 1
  /\ IF g_rootDepth + 1 > g_limits.m_depthLimit
       THEN /\ rs' = [rs EXCEPT !.pc = "returned", !.returned = stopResult(rs, pvAt(g_PVs, 0))]
            /\ link' = link
       ELSE \E r \in {rootWindow(rs, IF g_rootDepth + 1 < 2 THEN Len(WINDOW_WIDTH) - 1 ELSE 0)} :
              /\ rs' = r
              /\ link' = rootCall(r, g_rootDepth + 1)
  /\ UNCHANGED <<g_mustStop, g_limits, g_PVs, stack, trace>>
  /\ UNCHANGED searchTables
  /\ UNCHANGED <<playVars, ttVars, seeVars, otherVars>>

failedLow(r, result) ==
  [r EXCEPT !.result = result, !.failedLowCnt = r.failedLowCnt + 1,
            !.alpha = aspirationAlpha(result, r.failedLowCnt + 1),
            !.beta = aspirationBeta(result, r.failedHighCnt)]

failedHigh(r, result) ==
  [r EXCEPT !.result = result, !.failedHighCnt = r.failedHighCnt + 1,
            !.alpha = aspirationAlpha(result, r.failedLowCnt),
            !.beta = aspirationBeta(result, r.failedHighCnt + 1)]

\* lines 120-168: the root search has returned
RootAfterSearch ==
  /\ rs.pc = "call"
  /\ link.kind = "ret"
  /\ stack = <<>>
  /\ \E result \in {link.value}, soft \in BOOLEAN :
       IF g_mustStop
         THEN /\ rs' = [rs EXCEPT !.result = result, !.pc = "returned", !.returned = stopResult(rs, pvAt(g_PVs, 0))]
              /\ link' = NoLink
              /\ trace' = trace
       ELSE IF result <= rs.alpha /\ rs.failedLowCnt < Len(WINDOW_WIDTH) - 1
         THEN /\ rs' = failedLow(rs, result)
              /\ link' = rootCall(failedLow(rs, result), g_rootDepth)
              /\ trace' = trace
       ELSE IF result >= rs.beta /\ rs.failedHighCnt < Len(WINDOW_WIDTH) - 1
         THEN /\ rs' = failedHigh(rs, result)
              /\ link' = rootCall(failedHigh(rs, result), g_rootDepth)
              /\ trace' = trace
       ELSE /\ trace' = [trace EXCEPT !.completed = [best |-> pvFirst(pvAt(g_PVs, 0)), value |-> result]]
            /\ link' = NoLink
            /\ rs' = IF soft
                       THEN [rs EXCEPT !.result = result, !.pc = "returned",
                                       !.returned = [best |-> pvFirst(pvAt(g_PVs, 0)), value |-> result]]
                       ELSE [rs EXCEPT !.result = result, !.pc = "loop",
                                       !.lastBest = pvFirst(pvAt(g_PVs, 0)), !.lastResult = result]
  /\ UNCHANGED <<g_mustStop, g_rootDepth, g_limits, g_PVs, stack>>
  /\ UNCHANGED searchTables
  /\ UNCHANGED <<playVars, ttVars, seeVars, otherVars>>

(***************************************************************************)
(* The aspiration loop, for any value the root search returns.             *)
(***************************************************************************)
\* the depth limit of the search
MaxAspDepth == 2

SearchFEN == <<"n", "6", "k", "/", "7", "p", "/", "7", "P", "/", "8", "/", "8", "/", "1", "p", "5", "p",
               "/", "7", "P", "/", "N", "6", "K", " ", "w", " ", "-", " ", "-", " ", "0", " ", "1">>

AspInit == RootEntered(SearchFEN, MaxAspDepth)

\* the values search<PV> may return for the window: a fail low, a fail high, and 0 (a draw),
\* which is inside or outside the window
AspValues(alpha, beta) == {alpha, beta, 0}

\* the move h1g1
AspMove == Move(7, 6, SIMPLE, KNIGHT)

\* line 120: search<PV> runs and returns, stopped or not
AspSearch ==
  /\ rs.pc = "call"
  /\ link.kind = "call"
  /\ stack = <<>>
  /\ \E result \in AspValues(link.alpha, link.beta), stopped \in BOOLEAN :
       /\ link' = Return(result)
       /\ g_mustStop' = stopped
       /\ g_PVs' = (0 :> <<AspMove>>)
  /\ UNCHANGED <<g_rootDepth, g_limits, rs, stack, trace>>
  /\ UNCHANGED searchTables
  /\ UNCHANGED <<playVars, ttVars, seeVars, otherVars>>

AspNext == RootStart \/ RootIterate \/ AspSearch \/ RootAfterSearch
SpecAsp == AspInit /\ [][AspNext]_vars /\ WF_vars(AspNext)

\* the widenings of the window made in the current iteration
widenings == (rs.failedLowCnt + rs.failedHighCnt) - (IF g_rootDepth < 2 THEN 2 * (Len(WINDOW_WIDTH) - 1) ELSE 0)

InAspirationLoop == rs.pc = "call"

\* C9 (as stated): the aspiration loop terminates, and after at most four widenings the
\* window is alpha = -INF, beta = +INF
AspirationFullWindowInFourWidenings ==
  /\ [](InAspirationLoop /\ widenings >= 4 => rs.alpha = -INF /\ rs.beta = INF)
  /\ (InAspirationLoop ~> ~InAspirationLoop)

\* C9 (amended): the aspiration loop terminates after at most six widenings, three by fail
\* lows and three by fail highs; alpha is -INF from the third fail low on and beta is +INF
\* from the third fail high on, so the window is (-INF, +INF) after six widenings
AspirationConverges ==
  /\ [](InAspirationLoop =>
          /\ widenings \in 0..6
          /\ rs.failedLowCnt <= 3 /\ rs.failedHighCnt <= 3
          /\ rs.failedLowCnt = 3 => rs.alpha = -INF
          /\ rs.failedHighCnt = 3 => rs.beta = INF)
  /\ (InAspirationLoop ~> ~InAspirationLoop)

SixWideningsMade ==
  /\ InAspirationLoop
  /\ g_rootDepth >= 2
  /\ widenings = 6
  /\ rs.alpha = -INF
  /\ rs.beta = INF

(***************************************************************************)
(* The rules of chess, told on a square array: the reference the move      *)
(* generator is compared with.                                             *)
(***************************************************************************)
sgn(x) == IF x > 0 THEN 1 ELSE IF x < 0 THEN -1 ELSE 0

\* the squares strictly between two squares of one rank, file or diagonal
chessBetween(a, c) ==
  {Square(getFile(a) + k * sgn(getFile(c) - getFile(a)), getRank(a) + k * sgn(getRank(c) - getRank(a))) :
     k \in 1..(distance(a, c) - 1)}

\* the piece standing on from attacks the square to
chessReaches(squares, piece, from, to) ==
  LET df == Abs(getFile(to) - getFile(from))
      dr == getRank(to) - getRank(from)
      free == \A sq \in chessBetween(from, to) : squares[sq] = NONE
      diagonal == df = Abs(dr) /\ df # 0 /\ free
      straight == (df = 0) # (dr = 0) /\ free
  IN CASE getType(piece) = PAWN -> df = 1 /\ dr = (IF getColor(piece) = WHITE THEN 1 ELSE -1)
       [] getType(piece) = KNIGHT -> {df, Abs(dr)} = {1, 2}
       [] getType(piece) = BISHOP -> diagonal
       [] getType(piece) = ROOK -> straight
       [] getType(piece) = QUEEN -> diagonal \/ straight
       [] getType(piece) = KING -> Max(df, Abs(dr)) = 1
       [] OTHER -> FALSE

\* a piece of the colour attacks the square
chessAttacked(squares, sq, color) ==
  \E from \in Squares : /\ squares[from] # NONE
                        /\ getColor(squares[from]) = color
                        /\ chessReaches(squares, squares[from], from, sq)

\* what the rules read of a board: the squares, the side to move, the castling rights
\* and the en-passant square
chessPosition(b) ==
  [squares |-> b.m_board,
   side |-> b.m_side,
   rights |-> {cc \in Colors \X {KING_CASTLE, QUEEN_CASTLE} :
                 hasCastleRight(state(b).castleRight, cc[2], cc[1])},
   ep |-> state(b).ep]

chessRookFrom(m) == Square(IF getFile(getTo(m)) = 6 THEN 7 ELSE 0, getRank(getTo(m)))
chessRookTo(m) == Square(IF getFile(getTo(m)) = 6 THEN 5 ELSE 3, getRank(getTo(m)))

\* the squares after the move
chessSquaresAfter(pos, m) ==
  [sq \in Squares |->
     IF sq = getTo(m)
       THEN (IF getMoveType(m) = PROMOTION THEN Piece(pos.side, getPromotedPiece(m))
             ELSE pos.squares[getFrom(m)])
     ELSE IF sq = getFrom(m) THEN NONE
     ELSE IF getMoveType(m) = ENPASSANT /\ sq = Square(getFile(getTo(m)), getRank(getFrom(m))) THEN NONE
     ELSE IF getMoveType(m) = CASTLE /\ sq = chessRookFrom(m) THEN NONE
     ELSE IF getMoveType(m) = CASTLE /\ sq = chessRookTo(m) THEN Piece(pos.side, ROOK)
     ELSE pos.squares[sq]]

\* the castling rights a move from or to the square ends
chessRightsLost(sq) ==
  {cc \in Colors \X {KING_CASTLE, QUEEN_CASTLE} :
     \/ sq = Square(4, makeRelativeRank(cc[1], 0))
     \/ sq = Square(IF cc[2] = KING_CASTLE THEN 7 ELSE 0, makeRelativeRank(cc[1], 0))}

\* the position after the move
chessAfter(pos, m) ==
  [squares |-> chessSquaresAfter(pos, m),
   side |-> getOpposite(pos.side),
   rights |-> pos.rights \ (chessRightsLost(getFrom(m)) \cup chessRightsLost(getTo(m))),
   ep |-> IF getType(pos.squares[getFrom(m)]) = PAWN /\ Abs(getRank(getTo(m)) - getRank(getFrom(m))) = 2
            THEN Square(getFile(getFrom(m)), (getRank(getFrom(m)) + getRank(getTo(m))) \div 2)
            ELSE NO_POS]

\* the moves of the pawn on from, its own king's safety aside
chessPawnMoves(pos, from) ==
  LET dir == IF pos.side = WHITE THEN 1 ELSE -1
      f == getFile(from)
      r == getRank(from)
      one == Square(f, r + dir)
      two == Square(f, r + 2 * dir)
      pushes == IF pos.squares[one] # NONE THEN {}
                ELSE IF r = makeRelativeRank(pos.side, 1) /\ pos.squares[two] = NONE THEN {one, two}
                ELSE {one}
      aside == {Square(g, r + dir) : g \in {f - 1, f + 1} \cap 0..7}
      captures == {to \in aside : pos.squares[to] # NONE /\ getColor(pos.squares[to]) # pos.side}
  IN UNION {IF getRank(to) = makeRelativeRank(pos.side, 7)
              THEN {Move(from, to, PROMOTION, pt) : pt \in {KNIGHT, BISHOP, ROOK, QUEEN}}
              ELSE {Move(from, to, SIMPLE, KNIGHT)} : to \in pushes \cup captures}
     \cup {Move(from, to, ENPASSANT, KNIGHT) : to \in aside \cap {pos.ep}}

\* the moves of the knight, bishop, rook, queen or king on from
chessPieceMoves(pos, from) ==
  {Move(from, to, SIMPLE, KNIGHT) :
     to \in {t \in Squares : /\ chessReaches(pos.squares, pos.squares[from], from, t)
                             /\ pos.squares[t] = NONE \/ getColor(pos.squares[t]) # pos.side}}

\* the castlings: the right is there, king and rook stand on their squares, nothing
\* stands between them, and the king neither is, passes nor lands on an attacked square
chessCastlings(pos) ==
  LET rank == makeRelativeRank(pos.side, 0)
      kingSq == Square(4, rank)
      rookFile(castle) == IF castle = KING_CASTLE THEN 7 ELSE 0
      toFile(castle) == IF castle = KING_CASTLE THEN 6 ELSE 2
  IN {Move(kingSq, Square(toFile(castle), rank), CASTLE, KNIGHT) :
        castle \in {c \in {KING_CASTLE, QUEEN_CASTLE} :
          /\ <<pos.side, c>> \in pos.rights
          /\ pos.squares[kingSq] = Piece(pos.side, KING)
          /\ pos.squares[Square(rookFile(c), rank)] = Piece(pos.side, ROOK)
          /\ \A sq \in chessBetween(kingSq, Square(rookFile(c), rank)) : pos.squares[sq] = NONE
          /\ \A sq \in {kingSq, Square(toFile(c), rank)} \cup chessBetween(kingSq, Square(toFile(c), rank)) :
               ~chessAttacked(pos.squares, sq, getOpposite(pos.side))}}

\* the legal moves: the mover's king is not attacked once the move is made
chessLegalMoves(pos) ==
  {m \in chessCastlings(pos)
         \cup UNION {IF getType(pos.squares[from]) = PAWN THEN chessPawnMoves(pos, from)
                     ELSE chessPieceMoves(pos, from) :
                       from \in {sq \in Squares : /\ pos.squares[sq] # NONE
                                                  /\ getColor(pos.squares[sq]) = pos.side}} :
     \A after \in {chessSquaresAfter(pos, m)} :
       \A sq \in Squares : after[sq] = Piece(pos.side, KING) =>
                             ~chessAttacked(after, sq, getOpposite(pos.side))}

\* the number of games of depth legal moves from the position
RECURSIVE chessPerft(_, _)
RECURSIVE chessPerftOver(_, _, _)
chessPerftOver(pos, moves, depth) ==
  IF moves = {} THEN 0
  ELSE LET m == CHOOSE x \in moves : TRUE
       IN chessPerft(chessAfter(pos, m), depth - 1) + chessPerftOver(pos, moves \ {m}, depth)

chessPerft(pos, depth) ==
  IF depth = 0 THEN 1 ELSE chessPerftOver(pos, chessLegalMoves(pos), depth)


(***************************************************************************)
(* perft, from the positions of the test suite                             *)
(***************************************************************************)
TEST_FENS ==
  <<
   \* rnbqkbnr/pppppppp/8/8/8/8/PPPPPPPP/RNBQKBNR w KQkq - 0 1
   <<"r", "n", "b", "q", "k", "b", "n", "r", "/", "p", "p", "p", "p", "p", "p", "p", "p", "/",
     "8", "/", "8", "/", "8", "/", "8", "/", "P", "P", "P", "P", "P", "P", "P", "P", "/", "R",
     "N", "B", "Q", "K", "B", "N", "R", " ", "w", " ", "K", "Q", "k", "q", " ", "-", " ", "0",
     " ", "1">>,
   \* r3k2r/p1ppqpb1/bn2pnp1/3PN3/1p2P3/2N2Q1p/PPPBBPPP/R3K2R w KQkq - 0 1
   <<"r", "3", "k", "2", "r", "/", "p", "1", "p", "p", "q", "p", "b", "1", "/", "b", "n", "2",
     "p", "n", "p", "1", "/", "3", "P", "N", "3", "/", "1", "p", "2", "P", "3", "/", "2", "N",
     "2", "Q", "1", "p", "/", "P", "P", "P", "B", "B", "P", "P", "P", "/", "R", "3", "K", "2",
     "R", " ", "w", " ", "K", "Q", "k", "q", " ", "-", " ", "0", " ", "1">>,
   \* 8/2p5/3p4/KP5r/1R3p1k/8/4P1P1/8 w - - 0 1
   <<"8", "/", "2", "p", "5", "/", "3", "p", "4", "/", "K", "P", "5", "r", "/", "1", "R", "3",
     "p", "1", "k", "/", "8", "/", "4", "P", "1", "P", "1", "/", "8", " ", "w", " ", "-", " ",
     "-", " ", "0", " ", "1">>,
   \* r3k2r/Pppp1ppp/1b3nbN/nP6/BBP1P3/q4N2/Pp1P2PP/R2Q1RK1 w kq - 0 1
   <<"r", "3", "k", "2", "r", "/", "P", "p", "p", "p", "1", "p", "p", "p", "/", "1", "b", "3",
     "n", "b", "N", "/", "n", "P", "6", "/", "B", "B", "P", "1", "P", "3", "/", "q", "4", "N",
     "2", "/", "P", "p", "1", "P", "2", "P", "P", "/", "R", "2", "Q", "1", "R", "K", "1", " ",
     "w", " ", "k", "q", " ", "-", " ", "0", " ", "1">>,
   \* r2q1rk1/pP1p2pp/Q4n2/bbp1p3/Np6/1B3NBn/pPPP1PPP/R3K2R b KQ - 0 1
   <<"r", "2", "q", "1", "r", "k", "1", "/", "p", "P", "1", "p", "2", "p", "p", "/", "Q", "4",
     "n", "2", "/", "b", "b", "p", "1", "p", "3", "/", "N", "p", "6", "/", "1", "B", "3", "N",
     "B", "n", "/", "p", "P", "P", "P", "1", "P", "P", "P", "/", "R", "3", "K", "2", "R", " ",
     "b", " ", "K", "Q", " ", "-", " ", "0", " ", "1">>,
   \* rnbq1k1r/pp1Pbppp/2p5/8/2B5/8/PPP1NnPP/RNBQK2R w KQ - 1 8
   <<"r", "n", "b", "q", "1", "k", "1", "r", "/", "p", "p", "1", "P", "b", "p", "p", "p", "/",
     "2", "p", "5", "/", "8", "/", "2", "B", "5", "/", "8", "/", "P", "P", "P", "1", "N", "n",
     "P", "P", "/", "R", "N", "B", "Q", "K", "2", "R", " ", "w", " ", "K", "Q", " ", "-", " ",
     "1", " ", "8">>,
   \* r4rk1/1pp1qppp/p1np1n2/2b1p1B1/2B1P1b1/P1NP1N2/1PP1QPPP/R4RK1 w - - 0 10
   <<"r", "4", "r", "k", "1", "/", "1", "p", "p", "1", "q", "p", "p", "p", "/", "p", "1", "n",
     "p", "1", "n", "2", "/", "2", "b", "1", "p", "1", "B", "1", "/", "2", "B", "1", "P", "1",
     "b", "1", "/", "P", "1", "N", "P", "1", "N", "2", "/", "1", "P", "P", "1", "Q", "P", "P",
     "P", "/", "R", "4", "R", "K", "1", " ", "w", " ", "-", " ", "-", " ", "0", " ", "1", "0">>
  >>

\* an invocation of perft: its depth, its move list, the index of the move the loop is
\* at, its result so far, and where it is: "loop" at the head of the loop, "call" with
\* the move made and perft about to be called, "back" with the move about to be unmade
PerftFrame(depth, moves) == [depth |-> depth, moves |-> moves, i |-> 1, result |-> 0, pc |-> "loop"]

\* the depth perft is called with
MaxPerftDepth == 2

PerftInit ==
  /\ g_fen \in {TEST_FENS[k] : k \in 1..Len(TEST_FENS)}
  /\ g_board = fromFEN(g_fen).board
  /\ g_moveHistory = <<>>
  /\ pending = NoMove
  /\ snapshot = g_board
  /\ TTIdle
  /\ SEEIdle
  /\ SearchIdle
  /\ OtherIdle

perftTop == perftStack[Len(perftStack)]

\* perft is entered: board.generateMoves(moves)
PerftEnter ==
  /\ IF perftStack = <<>> THEN perftReturned = NotReturned ELSE perftTop.pc = "call"
  /\ perftStack' = Append(perftStack,
                          PerftFrame(IF perftStack = <<>> THEN MaxPerftDepth ELSE perftTop.depth - 1,
                                     generateMoves(g_board, ALL_MOVES, <<>>)))
  /\ UNCHANGED perftReturned
  /\ UNCHANGED <<playVars, exceptPerft>>

\* the move of the loop is not legal: continue
PerftSkip ==
  /\ perftStack # <<>>
  /\ perftTop.pc = "loop"
  /\ perftTop.i <= Len(perftTop.moves)
  /\ ~isLegal(g_board, perftTop.moves[perftTop.i])
  /\ perftStack' = [perftStack EXCEPT ![Len(perftStack)].i = @ + 1]
  /\ UNCHANGED perftReturned
  /\ UNCHANGED <<playVars, exceptPerft>>

\* the move of the loop is legal: makeMove, and at depth <= 1 result++
PerftMake ==
  /\ perftStack # <<>>
  /\ perftTop.pc = "loop"
  /\ perftTop.i <= Len(perftTop.moves)
  /\ isLegal(g_board, perftTop.moves[perftTop.i])
  /\ g_board' = makeMove(g_board, perftTop.moves[perftTop.i])
  /\ perftStack' = [perftStack EXCEPT ![Len(perftStack)] =
                      IF @.depth <= 1 THEN [@ EXCEPT !.result = @ + 1, !.pc = "back"]
                      ELSE [@ EXCEPT !.pc = "call"]]
  /\ UNCHANGED perftReturned
  /\ UNCHANGED <<g_moveHistory, g_fen, pending, snapshot>>
  /\ UNCHANGED exceptPerft

\* the loop is over: return result, which the caller adds to its own
PerftReturn ==
  /\ perftStack # <<>>
  /\ perftTop.pc = "loop"
  /\ perftTop.i > Len(perftTop.moves)
  /\ IF Len(perftStack) = 1
       THEN /\ perftStack' = <<>>
            /\ perftReturned' = [returned |-> TRUE, result |-> perftTop.result]
       ELSE /\ perftStack' = [SubSeq(perftStack, 1, Len(perftStack) - 1)
                                EXCEPT ![Len(perftStack) - 1] =
                                  [@ EXCEPT !.result = @ + perftTop.result, !.pc = "back"]]
            /\ UNCHANGED perftReturned
  /\ UNCHANGED <<playVars, exceptPerft>>

\* board.unmakeMove(m), and the loop goes on
PerftUnmake ==
  /\ perftStack # <<>>
  /\ perftTop.pc = "back"
  /\ g_board' = unmakeMove(g_board, perftTop.moves[perftTop.i])
  /\ perftStack' = [perftStack EXCEPT ![Len(perftStack)] = [@ EXCEPT !.i = @ + 1, !.pc = "loop"]]
  /\ UNCHANGED perftReturned
  /\ UNCHANGED <<g_moveHistory, g_fen, pending, snapshot>>
  /\ UNCHANGED exceptPerft

PerftNext == PerftEnter \/ PerftSkip \/ PerftMake \/ PerftReturn \/ PerftUnmake
SpecPerft == PerftInit /\ [][PerftNext]_vars

\* the legal moves of the list generateMoves makes for the board
legalGenerated(b) == SelectSeq(generateMoves(b, ALL_MOVES, <<>>), LAMBDA m : isLegal(b, m))

\* perft has just been entered or has just made a move
perftAtNewPosition ==
  /\ perftStack # <<>>
  /\ perftTop.pc = "loop" => perftTop.i = 1

fromColor(color) ==
  {sq \in Squares : /\ sq - color \in Squares
                    /\ (getFile(sq - color) + getRank(sq - color)) % 2 = 0}

msb(bb) == CHOOSE sq \in bb : \A t \in bb : sq >= t

s_adjacentFiles == [file \in 0..7 |-> shift(fromFile(file), RIGHT) \cup shift(fromFile(file), LEFT)]
adjacentFiles(file) == s_adjacentFiles[file]

\* BitBoard::init fills s_threeFilesForward[..][i] in the loop that fills s_directionBits[i],
\* squares ascending: the row of the square to the right (i + 1) is still zero when it is read
s_threeFilesForward ==
  [color \in Colors |-> [i \in Squares |->
    UNION {IF j <= i THEN s_directionBits[j][IF color = WHITE THEN UP ELSE DOWN] ELSE {} :
             j \in {i} \cup (IF getFile(i) # 0 THEN {shiftSq(i, LEFT)} ELSE {})
                       \cup (IF getFile(i) # 7 THEN {shiftSq(i, RIGHT)} ELSE {})}]]
threeFilesForward(Side, sq) == s_threeFilesForward[Side][sq]

s_adjacentFilesForward ==
  [color \in Colors |-> [i \in Squares |-> s_adjacentFiles[getFile(i)] \cap s_threeFilesForward[color][i]]]
adjacentFilesForward(Side, sq) == s_adjacentFilesForward[Side][sq]

manhattanClosedness(a, b) == 14 - (Abs(getRank(a) - getRank(b)) + Abs(getFile(a) - getFile(b)))

\* integer division of C++: towards zero
truncDiv(x, y) == IF x >= 0 THEN x \div y ELSE -((-x) \div y)

MATERIAL_MIN == 8
MATERIAL_RANGE == 64
\* Material::Material(value): m_value
Material(value) == Max(MATERIAL_MIN, Min(MATERIAL_MIN + MATERIAL_RANGE, value)) - MATERIAL_MIN
interpolate(m_value, a, b) == I16(truncDiv(a * m_value + b * (MATERIAL_RANGE - m_value), MATERIAL_RANGE))
collapse(score, material) == interpolate(material, score[1], score[2])
scoreMul(a, value) == <<I16(a[1] * value), I16(a[2] * value)>>
middlegame(score) == score[1]
endgame(score) == score[2]

RECURSIVE scoreSum(_)
scoreSum(scores) == IF scores = <<>> THEN Z ELSE scoreAdd(Head(scores), scoreSum(Tail(scores)))

RECURSIVE valueSum(_)
valueSum(values) == IF values = <<>> THEN 0 ELSE Head(values) + valueSum(Tail(values))

TEMPO_SCORE == S(15, 3)
PAWN_ISLANDS == <<Z, Z, S(-3, -3), S(-21, -16), S(-34, -32)>>
DEFENDED_PAWN == <<Z, Z, S(3, 5), S(7, 8), S(13, 15), S(19, 23), S(28, 36), Z>>
ISOLATED_PAWN == S(-7, -5)
BACKWARD_PAWN == S(-9, -9)
DOUBLE_PAWN == S(-10, -23)
PAWN_DISTORTION == S(-1, -2)
PASSED_PAWN == <<Z, S(15, 25), S(22, 30), S(30, 35), S(42, 48), S(55, 65), S(75, 95), Z>>
ROOK_BEHIND_PASSED_PAWN == S(12, 28)
MINOR_PASSED_BLOCKED == S(-14, -27)
BISHOP_PAIR == S(35, 20)
SQUARE_RULE_PASSED == 200
KING_PASSED_TROPISM == 5
KING_PAWN_TROPISM == 2
KING_PUSH_TO_CORNER ==
  <<100, 90, 80, 70, 70, 80, 90, 100,
    90, 60, 50, 40, 40, 50, 60, 90,
    80, 50, 30, 20, 20, 30, 50, 80,
    70, 40, 20, 10, 10, 20, 40, 70,
    70, 40, 20, 10, 10, 20, 40, 70,
    80, 50, 30, 20, 20, 30, 50, 80,
    90, 60, 50, 40, 40, 50, 60, 90,
    100, 90, 80, 70, 70, 80, 90, 100>>
SURE_WIN == 20000

knights(b, color) == b.m_pieces[Piece(color, KNIGHT)]
bishops(b, color) == b.m_pieces[Piece(color, BISHOP)]
hasOnlySameColoredBishops(b, color) ==
  bishops(b, color) \cap fromColor(WHITE) = {} \/ bishops(b, color) \cap fromColor(BLACK) = {}
hasDifferentColoredBishops(b, color) ==
  bishops(b, color) \cap fromColor(WHITE) # {} /\ bishops(b, color) \cap fromColor(BLACK) # {}
hasNonPawns(b, color) ==
  b_xor(b_xor(b.m_piecesByColor[color], b.m_pieces[Piece(color, PAWN)]),
        b.m_pieces[Piece(color, KING)]) # {}
materialByColor(b, color) == b.m_material[color]
scoreByColor(b, color) == b.m_score[color]

\* scanPawns<Side>: what the loop adds to pawnEvaluation[Side] for the pawn on sq
scanPawn(b, Side, sq) ==
  LET pawns == byPiece(b, Piece(Side, PAWN))
      enemyPawns == byPiece(b, Piece(getOpposite(Side), PAWN))
      Up == makeRelativeDirection(Side, UP)
      rank == makeRelativeRank(Side, getRank(sq))
  IN scoreSum(
       <<IF sq \in pawnAttackedSquares(pawns, Side) THEN DEFENDED_PAWN[rank + 1] ELSE Z,
         IF /\ threeFilesForward(Side, sq) \cap enemyPawns = {}
            /\ s_directionBits[sq][Up] \cap pawns = {}
           THEN PASSED_PAWN[rank + 1] ELSE Z,
         IF adjacentFiles(getFile(sq)) \cap pawns = {} THEN ISOLATED_PAWN ELSE Z,
         IF s_directionBits[sq][Up] \cap pawns # {} THEN DOUBLE_PAWN ELSE Z,
         IF /\ adjacentFilesForward(getOpposite(Side), shiftSq(sq, Up)) \cap pawns = {}
            /\ pawnAttacks(Side, shiftSq(sq, Up)) \cap enemyPawns # {}
           THEN BACKWARD_PAWN ELSE Z>>)

\* scanPawns<Side>: the pawn on sq ends an island (counted once per pawn)
endsIsland(pawns, sq) == getFile(sq) = 7 \/ fromFile(getFile(sq) + 1) \cap pawns = {}

\* scanPawns<Side>: islandsCount[Side] after the loop over the pawns
islandsCountOf(pawns) == Cardinality({sq \in pawns : endsIsland(pawns, sq)})

\* scanPawns<Side>: what the pawn on sq adds to distortion[Side]
distortionOf(pawns, sq) ==
  IF endsIsland(pawns, sq) THEN 0
  ELSE Max(0, Abs(getRank(lsb(fromFile(getFile(sq) + 1) \cap pawns)) - getRank(sq)) - 1)

\* scanPawns<Side>: pawnEvaluation[Side]; beyond is what is read past the end of
\* PAWN_ISLANDS when islandsCount exceeds 4
scanPawns(b, Side, beyond) ==
  LET pawns == byPiece(b, Piece(Side, PAWN))
      s == bbSeq(pawns)
      islandsCount == islandsCountOf(pawns)
      distortion == valueSum([k \in 1..Len(s) |-> distortionOf(pawns, s[k])]) % 256
  IN scoreAdd(scoreAdd(scoreSum([k \in 1..Len(s) |-> scanPawn(b, Side, s[k])]),
                       IF islandsCount + 1 \in DOMAIN PAWN_ISLANDS THEN PAWN_ISLANDS[islandsCount + 1]
                       ELSE beyond),
              scoreMul(PAWN_DISTORTION, distortion))

\* PawnHashTable::getOrScanPHE: the fields of the entry eval reads.  An entry is kept
\* with the pawns it was scanned for and used for those pawns only, and the zeroed
\* entry of an untouched table is what the scan of a board without pawns gives.
getOrScanPHE(b, beyond) ==
  [pawns |-> [c \in Colors |-> byPiece(b, Piece(c, PAWN))],
   passed |-> UNION {{sq \in byPiece(b, Piece(c, PAWN)) :
                        /\ threeFilesForward(c, sq) \cap byPiece(b, Piece(getOpposite(c), PAWN)) = {}
                        /\ s_directionBits[sq][makeRelativeDirection(c, UP)]
                             \cap byPiece(b, Piece(c, PAWN)) = {}} : c \in Colors},
   pawnEvaluation |-> [c \in Colors |-> IF byPiece(b, Piece(WHITE, PAWN)) \cup byPiece(b, Piece(BLACK, PAWN)) = {}
                                          THEN Z ELSE scanPawns(b, c, beyond)]]

\* isDrawishEndgame<StrongSide>
isDrawishEndgameFor(b, StrongSide, strongMat, weakMat) ==
  CASE strongMat + weakMat = 3 -> TRUE
    [] strongMat + weakMat = 6 ->
         IF strongMat = 3 THEN TRUE
         ELSE IF bishops(b, StrongSide) = {} THEN TRUE
         ELSE hasOnlySameColoredBishops(b, StrongSide)
    [] strongMat + weakMat = 9 ->
         IF strongMat = 6
           THEN \/ knights(b, StrongSide) # {}
                \/ bishops(b, getOpposite(StrongSide)) = {}
                \/ hasOnlySameColoredBishops(b, StrongSide)
           ELSE FALSE
    [] OTHER -> FALSE

isDrawishEndgame(b) ==
  LET wMat == materialByColor(b, WHITE) % 256
      bMat == materialByColor(b, BLACK) % 256
  IN IF wMat + bMat > 9 THEN FALSE
     ELSE IF byPiece(b, Piece(WHITE, PAWN)) # {} \/ byPiece(b, Piece(BLACK, PAWN)) # {} THEN FALSE
     ELSE IF wMat > bMat THEN isDrawishEndgameFor(b, WHITE, wMat, bMat)
     ELSE isDrawishEndgameFor(b, BLACK, bMat, wMat)

evalKBNK(b, StrongSide) ==
  LET enemyKing == king(b, getOpposite(StrongSide))
      kingKingTropism == distance(enemyKing, king(b, StrongSide))
      corners == IF byPiece(b, Piece(StrongSide, BISHOP)) \cap fromColor(WHITE) # {}
                   THEN <<Square(0, 7), Square(7, 0)>>
                   ELSE <<Square(7, 7), Square(0, 0)>>
  IN I16(kingKingTropism - Min(distance(corners[1], enemyKing), distance(corners[2], enemyKing)) * 5)

evalSoleKingXPieces(b) ==
  LET result ==
        IF materialByColor(b, WHITE) = 0
          THEN (IF /\ materialByColor(b, BLACK) = 6
                   /\ byPiece(b, Piece(BLACK, BISHOP)) # {}
                   /\ byPiece(b, Piece(BLACK, KNIGHT)) # {}
                  THEN I16(-SURE_WIN + evalKBNK(b, BLACK))
                  ELSE I16(-KING_PUSH_TO_CORNER[king(b, WHITE) + 1] - SURE_WIN))
          ELSE (IF /\ materialByColor(b, WHITE) = 6
                   /\ byPiece(b, Piece(WHITE, BISHOP)) # {}
                   /\ byPiece(b, Piece(WHITE, KNIGHT)) # {}
                  THEN I16(SURE_WIN - evalKBNK(b, WHITE))
                  ELSE I16(KING_PUSH_TO_CORNER[king(b, BLACK) + 1] + SURE_WIN))
  IN I16((IF b.m_side = WHITE THEN 1 ELSE -1) * result)

\* evalPawnEndgame<Side>: what the loop adds to result for the pawn on sq
evalPawnEndgamePawn(b, Side, entry, sq) ==
  LET enemyKingSq == king(b, getOpposite(Side))
      ourKingSq == king(b, Side)
      promotionSq == Square(getFile(sq), makeRelativeRank(Side, 7))
      isEnemySideToMove == IF b.m_side # Side THEN 1 ELSE 0
  IN IF sq \in entry.passed \cap entry.pawns[Side]
       THEN (IF Min(5, distance(sq, promotionSq)) < distance(enemyKingSq, promotionSq) - isEnemySideToMove
               THEN SQUARE_RULE_PASSED ELSE 0)
            + KING_PASSED_TROPISM * manhattanClosedness(ourKingSq, sq)
            - KING_PASSED_TROPISM * manhattanClosedness(enemyKingSq, sq)
       ELSE KING_PAWN_TROPISM * manhattanClosedness(ourKingSq, sq)
            - KING_PAWN_TROPISM * manhattanClosedness(enemyKingSq, sq)

evalPawnEndgame(b, Side, entry) ==
  LET s == bbSeq(entry.pawns[Side])
  IN I16(endgame(scoreByColor(b, Side)) + endgame(entry.pawnEvaluation[Side])
         + valueSum([k \in 1..Len(s) |-> evalPawnEndgamePawn(b, Side, entry, s[k])]))

\* evalSide<Side>: what the loop adds to result for the passed pawn on sq
evalSidePassed(b, Side, sq) ==
  LET Up == makeRelativeDirection(Side, UP)
      Down == makeRelativeDirection(Side, DOWN)
      rooksBehind == byPiece(b, Piece(Side, ROOK)) \cap s_directionBits[sq][Down]
  IN scoreAdd(
       IF /\ rooksBehind # {}
          /\ allPieces(b) \cap betweenBits(sq, IF Side = WHITE THEN msb(rooksBehind) ELSE lsb(rooksBehind)) = {}
         THEN ROOK_BEHIND_PASSED_PAWN ELSE Z,
       IF b.m_board[shiftSq(sq, Up)] \in {Piece(getOpposite(Side), KNIGHT), Piece(getOpposite(Side), BISHOP)}
         THEN MINOR_PASSED_BLOCKED ELSE Z)

evalSide(b, Side, entry) ==
  LET s == bbSeq(entry.passed \cap entry.pawns[Side])
  IN scoreSum(<<scoreByColor(b, Side),
                entry.pawnEvaluation[Side],
                scoreSum([k \in 1..Len(s) |-> evalSidePassed(b, Side, s[k])]),
                IF hasDifferentColoredBishops(b, Side) THEN BISHOP_PAIR ELSE Z>>)

\* eval(board): the value from the point of view of the side to move
eval(b, beyond) ==
  LET sign == IF b.m_side = WHITE THEN 1 ELSE -1
      entry == getOrScanPHE(b, beyond)
      material == Material(materialByColor(b, WHITE) + materialByColor(b, BLACK))
  IN IF ~hasNonPawns(b, WHITE) /\ ~hasNonPawns(b, BLACK)
       THEN I16(I16(sign * I16(evalPawnEndgame(b, WHITE, entry) - evalPawnEndgame(b, BLACK, entry)))
                + endgame(TEMPO_SCORE))
     ELSE IF isDrawishEndgame(b) THEN 0
     ELSE IF materialByColor(b, WHITE) = 0 \/ materialByColor(b, BLACK) = 0 THEN evalSoleKingXPieces(b)
     ELSE I16(I16(sign * collapse(scoreSub(evalSide(b, WHITE, entry), evalSide(b, BLACK, entry)), material))
              + collapse(TEMPO_SCORE, material))


(***************************************************************************)
(* eval of a position and of its mirror image                              *)
(***************************************************************************)
mirrorSquare(sq) == Square(getFile(sq), 7 - getRank(sq))
mirrorPiece(piece) == Piece(getOpposite(getColor(piece)), getType(piece))
mirrorRights(rights) ==
  valueSum([k \in 1..4 |->
    IF hasCastleRight(rights, <<KING_CASTLE, QUEEN_CASTLE, KING_CASTLE, QUEEN_CASTLE>>[k],
                      <<WHITE, WHITE, BLACK, BLACK>>[k])
      THEN getBitMaskFor(<<KING_CASTLE, QUEEN_CASTLE, KING_CASTLE, QUEEN_CASTLE>>[k],
                         <<BLACK, BLACK, WHITE, WHITE>>[k])
      ELSE 0])

\* the pieces of the squares sq..63 of the mirror image, put on the board acc
RECURSIVE mirrorFrom(_, _, _)
mirrorFrom(b, sq, acc) ==
  IF sq > 63 \/ acc.m_side # WHITE THEN acc
  ELSE mirrorFrom(b, sq + 1,
         IF b.m_board[mirrorSquare(sq)] = NONE THEN acc
         ELSE addPiece(acc, getOpposite(getColor(b.m_board[mirrorSquare(sq)])),
                       mirrorPiece(b.m_board[mirrorSquare(sq)]), sq))

\* the position with the colours of all pieces swapped, the board flipped rank r to
\* rank 9 - r, and the side to move, the castling rights and the en-passant square
\* swapped accordingly
mirror(b) ==
  [mirrorFrom(b, 0, Board)
     EXCEPT !.m_side = getOpposite(b.m_side),
            !.m_moveCount = b.m_moveCount,
            !.m_states = <<[StateInfo EXCEPT
                              !.castleRight = mirrorRights(state(b).castleRight),
                              !.ep = IF state(b).ep = NO_POS THEN NO_POS ELSE mirrorSquare(state(b).ep),
                              !.fiftyRule = state(b).fiftyRule]>>]

EvalFENs ==
  {
   \* the bishop a3 is on a dark square: 4k3/p7/8/8/8/B7/P7/4K3 w - - 0 1
   <<"4", "k", "3", "/", "p", "7", "/", "8", "/", "8", "/", "8", "/", "B", "7", "/", "P", "7",
     "/", "4", "K", "3", " ", "w", " ", "-", " ", "-", " ", "0", " ", "1">>,
   \* king, bishop and knight against the bare king: B7/8/8/4k3/8/8/8/KN6 w - - 0 1
   <<"B", "7", "/", "8", "/", "8", "/", "4", "k", "3", "/", "8", "/", "8", "/", "8", "/", "K",
     "N", "6", " ", "w", " ", "-", " ", "-", " ", "0", " ", "1">>,
   \* a pawn endgame: 4k3/pp6/8/8/8/8/P1P5/4K3 w - - 0 1
   <<"4", "k", "3", "/", "p", "p", "6", "/", "8", "/", "8", "/", "8", "/", "8", "/", "P", "1",
     "P", "5", "/", "4", "K", "3", " ", "w", " ", "-", " ", "-", " ", "0", " ", "1">>,
   \* doubled pawns next to a pawn: 4k2r/8/8/8/1P6/1P6/P7/4K2R b - - 0 1
   <<"4", "k", "2", "r", "/", "8", "/", "8", "/", "8", "/", "1", "P", "6", "/", "1", "P", "6",
     "/", "P", "7", "/", "4", "K", "2", "R", " ", "b", " ", "-", " ", "-", " ", "0", " ", "1">>,
   \* two minor pieces against one: 4k3/8/3b4/8/8/8/8/1NB1K3 w - - 0 1
   <<"4", "k", "3", "/", "8", "/", "3", "b", "4", "/", "8", "/", "8", "/", "8", "/", "8", "/",
     "1", "N", "B", "1", "K", "3", " ", "w", " ", "-", " ", "-", " ", "0", " ", "1">>,
   \* rooks behind passed pawns: r3k3/p7/8/8/8/8/7P/4K2R w - - 0 1
   <<"r", "3", "k", "3", "/", "p", "7", "/", "8", "/", "8", "/", "8", "/", "8", "/", "7", "P",
     "/", "4", "K", "2", "R", " ", "w", " ", "-", " ", "-", " ", "0", " ", "1">>,
   \* three islands, two of doubled pawns: 4k3/8/8/8/8/P1P5/P1P1P3/4K3 w - - 0 1
   <<"4", "k", "3", "/", "8", "/", "8", "/", "8", "/", "8", "/", "P", "1", "P", "5", "/", "P", "1",
     "P", "1", "P", "3", "/", "4", "K", "3", " ", "w", " ", "-", " ", "-", " ", "0", " ", "1">>
  }

\* plies played from a position before it is evaluated
MaxEvalPly == 1

\* what may lie behind the end of PAWN_ISLANDS
BeyondScores == {Z, S(-34, -32)}

EvalInit ==
  /\ g_fen \in EvalFENs
  /\ g_board = fromFEN(g_fen).board
  /\ g_moveHistory = <<>>
  /\ pending = NoMove
  /\ snapshot = g_board
  /\ TTIdle
  /\ SEEIdle
  /\ SearchIdle
  /\ OtherIdle

\* a legal move is made
EvalPlay ==
  /\ Len(g_moveHistory) < MaxEvalPly
  /\ evalCall = NoEval
  /\ \E m \in movesOf(g_board, ALL_MOVES) :
       /\ isLegal(g_board, m)
       /\ g_board' = makeMove(g_board, m)
       /\ g_moveHistory' = Append(g_moveHistory, m)
  /\ UNCHANGED <<g_fen, pending, snapshot>>
  /\ UNCHANGED <<ttVars, seeVars, searchVars, otherVars>>

\* eval is called on the board and on its mirror image
EvalBoth ==
  /\ evalCall = NoEval
  /\ \E beyond \in BeyondScores :
       evalCall' = [kind |-> "eval", value |-> eval(g_board, beyond),
                    mirrored |-> eval(mirror(g_board), beyond)]
  /\ UNCHANGED exceptEval

EvalNext == EvalPlay \/ EvalBoth
SpecEval == EvalInit /\ [][EvalNext]_vars

\* C12 (as stated): for every position P, |eval(P)| = |eval(mirror(P))|.
EvalSymmetricUnderMirror ==
  evalCall.kind = "eval" => Abs(evalCall.value) = Abs(evalCall.mirrored)

(***************************************************************************)
(* BitBoard::areAligned against the lines of the board                     *)
(***************************************************************************)
\* a and b are two squares of one rank, file or diagonal
chessOnCommonLine(a, b) ==
  /\ a # b
  /\ \/ getRank(a) = getRank(b)
     \/ getFile(a) = getFile(b)
     \/ Abs(getFile(a) - getFile(b)) = Abs(getRank(a) - getRank(b))

\* c is on the straight line through a and b, prolonged to the edges of the board
chessOnLineThrough(a, b, c) ==
  (getFile(c) - getFile(a)) * (getRank(b) - getRank(a))
    = (getRank(c) - getRank(a)) * (getFile(b) - getFile(a))

AlignedInit ==
  /\ PlayIdle
  /\ TTIdle
  /\ SEEIdle
  /\ SearchIdle
  /\ OtherIdle

\* BitBoard::areAligned is called with three squares
AreAligned ==
  /\ lastCall = NoLastCall
  /\ \E a \in Squares, b \in Squares, c \in Squares :
       lastCall' = [kind |-> "areAligned", a |-> a, b |-> b, c |-> c,
                    result |-> areAligned(a, b, c)]
  /\ UNCHANGED <<playVars, exceptCall>>

AlignedNext == AreAligned

SpecAligned == AlignedInit /\ [][AlignedNext]_vars

\* C13: areAligned(a, b, c) is true exactly when a and b are different squares of one
\* rank, file or diagonal and c is on that line, anywhere between the edges of the board.
AlignedIffOnCommonLine ==
  lastCall.kind = "areAligned" =>
    (lastCall.result <=> /\ chessOnCommonLine(lastCall.a, lastCall.b)
                         /\ chessOnLineThrough(lastCall.a, lastCall.b, lastCall.c))

\* c2, e4 and h7: the third square is on the diagonal beyond the second, and found aligned
AlignedBeyondSecondSquare ==
  /\ lastCall.kind = "areAligned"
  /\ lastCall.a = 10 /\ lastCall.b = 28 /\ lastCall.c = 55
  /\ lastCall.result

(***************************************************************************)
(* Board::makeMoveFromString on strings of every kind                      *)
(***************************************************************************)
MoveStringFENs ==
  {
   \* a pawn about to promote, by a push or by a capture, and a castling: r3k3/1P6/8/8/8/8/8/4K2R w K - 0 1
   <<"r", "3", "k", "3", "/", "1", "P", "6", "/", "8", "/", "8", "/", "8", "/", "8", "/",
    "8", "/", "4", "K", "2", "R", " ", "w", " ", "K", " ", "-", " ", "0", " ", "1">>,
   \* the same for black, with both castlings: r3k2r/8/8/8/8/8/1p5P/R3K2R b KQkq - 0 1
   <<"r", "3", "k", "2", "r", "/", "8", "/", "8", "/", "8", "/", "8", "/", "8", "/", "1",
    "p", "5", "P", "/", "R", "3", "K", "2", "R", " ", "b", " ", "K", "Q", "k", "q", " ", "-",
    " ", "0", " ", "1">>,
   \* the bishop e2 is pinned: its moves are generated and not legal: 4r1k1/8/8/8/8/8/4B3/4K3 w - - 0 1
   <<"4", "r", "1", "k", "1", "/", "8", "/", "8", "/", "8", "/", "8", "/", "8", "/", "4",
    "B", "3", "/", "4", "K", "3", " ", "w", " ", "-", " ", "-", " ", "0", " ", "1">>
  }

\* the fifth characters tried: the four promotion pieces, a pawn, a king, a capital letter
PromotionChars == {"n", "b", "r", "q", "p", "k", "Q"}

\* the strings tried: every pair of squares, every pair from the seventh or second rank to
\* the eighth or first with a fifth character, the two castlings, a string too short
MoveStrings ==
  {squareToString(from) \o squareToString(to) : from \in Squares, to \in Squares}
  \cup {squareToString(from) \o squareToString(to) \o <<ch>> :
          from \in fromRank(1) \cup fromRank(6), to \in fromRank(0) \cup fromRank(7),
          ch \in PromotionChars}
  \cup {<<"0", "-", "0">>, <<"0", "-", "0", "-", "0">>, <<"e", "2">>}

MoveStringInit ==
  /\ g_fen \in MoveStringFENs
  /\ g_board = fromFEN(g_fen).board
  /\ g_moveHistory = <<>>
  /\ pending = NoMove
  /\ snapshot = g_board
  /\ TTIdle
  /\ SEEIdle
  /\ SearchIdle
  /\ OtherIdle

\* Board::makeMoveFromString is called on the board with a string
MakeMoveFromString ==
  /\ lastCall = NoLastCall
  /\ \E str \in MoveStrings :
       lastCall' = [kind |-> "makeMoveFromString", str |-> str,
                    result |-> makeMoveFromString(g_board, str)]
  /\ UNCHANGED <<playVars, exceptCall>>

MoveStringNext == MakeMoveFromString

SpecMoveString == MoveStringInit /\ [][MoveStringNext]_vars

\* C14 (as stated): makeMoveFromString returns the null move or a move of the generated
\* move list of the position that passes isLegal, and never any other move.
MoveFromStringIsGeneratedOrNull ==
  lastCall.kind = "makeMoveFromString" =>
    \/ lastCall.result = nullMove
    \/ /\ lastCall.result \in movesOf(g_board, ALL_MOVES)
       /\ isLegal(g_board, lastCall.result)

(***************************************************************************)
(* Board::fromFEN on a FEN that stops before the two counters              *)
(***************************************************************************)
TruncatedFENs ==
  {
   \* the initial position: rnbqkbnr/pppppppp/8/8/8/8/PPPPPPPP/RNBQKBNR w KQkq - 0 1
   <<"r", "n", "b", "q", "k", "b", "n", "r", "/", "p", "p", "p", "p", "p", "p", "p", "p",
    "/", "8", "/", "8", "/", "8", "/", "8", "/", "P", "P", "P", "P", "P", "P", "P", "P", "/",
    "R", "N", "B", "Q", "K", "B", "N", "R", " ", "w", " ", "K", "Q", "k", "q", " ", "-", " ",
    "0", " ", "1">>,
   \* the bishop e2 is pinned by the rook e8: 4r1k1/8/8/8/8/8/4B3/4K3 w - - 0 1
   <<"4", "r", "1", "k", "1", "/", "8", "/", "8", "/", "8", "/", "8", "/", "8", "/", "4",
    "B", "3", "/", "4", "K", "3", " ", "w", " ", "-", " ", "-", " ", "0", " ", "1">>,
   \* the black king is in check, black to move: 4k3/8/8/8/8/8/4R3/4K3 b - - 0 1
   <<"4", "k", "3", "/", "8", "/", "8", "/", "8", "/", "8", "/", "8", "/", "4", "R", "3",
    "/", "4", "K", "3", " ", "b", " ", "-", " ", "-", " ", "0", " ", "1">>
  }

MaxFENPly == 1

\* the index of the n-th space of a FEN, looked for from index i on
RECURSIVE nthSpace(_, _, _)
nthSpace(fen, n, i) ==
  IF fen[i] = " " THEN (IF n = 1 THEN i ELSE nthSpace(fen, n - 1, i + 1))
  ELSE nthSpace(fen, n, i + 1)

\* the first fields of a FEN: 2 (up to the side to move), 3 (the castling rights), 4 (the
\* en-passant square)
firstFields(fen, fields) == SubSeq(fen, 1, nthSpace(fen, fields, 1) - 1)

\* the fields a FEN cut after its first fields lacks, with no castling right, no
\* en-passant square, the counter 0 and the move number 1
defaultFields(fields) ==
  CASE fields = 2 -> <<" ", "-", " ", "-", " ", "0", " ", "1">>
    [] fields = 3 -> <<" ", "-", " ", "0", " ", "1">>
    [] fields = 4 -> <<" ", "0", " ", "1">>

\* the move number toFEN prints
fullMoveNumber(b) ==
  IF b.m_moveCount # 0 THEN (b.m_moveCount - getOpposite(b.m_side)) \div 2 + 1 ELSE 1

TruncatedInit ==
  /\ g_fen \in TruncatedFENs
  /\ g_board = fromFEN(g_fen).board
  /\ g_moveHistory = <<>>
  /\ pending = NoMove
  /\ snapshot = g_board
  /\ TTIdle
  /\ SEEIdle
  /\ SearchIdle
  /\ OtherIdle

\* a legal move is played, to get another position to write down
TruncatedPlay ==
  /\ Len(g_moveHistory) < MaxFENPly
  /\ lastCall = NoLastCall
  /\ \E m \in movesOf(g_board, ALL_MOVES) :
       /\ isLegal(g_board, m)
       /\ g_board' = makeMove(g_board, m)
       /\ g_moveHistory' = Append(g_moveHistory, m)
  /\ UNCHANGED <<g_fen, pending, snapshot>>
  /\ UNCHANGED <<ttVars, seeVars, searchVars, otherVars>>

\* Board::fromFEN is called, as engine::newGame calls it, with the FEN of the board cut
\* after 2, 3 or 4 fields: bool success of the caller is not initialised, and holds
\* whatever it held if fromFEN does not write it
FromTruncatedFEN ==
  /\ lastCall = NoLastCall
  /\ \E fields \in 2..4, uninitialised \in BOOLEAN :
       \E fen \in {firstFields(toFEN(g_board), fields)} :
         \E r \in {fromFEN(fen)} :
           lastCall' = [kind |-> "fromFEN", fen |-> fen,
                        success |-> IF r.success = "unset" THEN uninitialised ELSE r.success = "true",
                        board |-> r.board,
                        complete |-> fromFEN(fen \o defaultFields(fields))]
  /\ UNCHANGED <<playVars, exceptCall>>

TruncatedNext == TruncatedPlay \/ FromTruncatedFEN

SpecTruncatedFEN == TruncatedInit /\ [][TruncatedNext]_vars

\* C15 (as stated): for a FEN cut after the side to move, the castling rights or the
\* en-passant square, fromFEN reports success, the fifty-move counter is 0, the move
\* number is 1, and checkGivers, checkBlockers and pinners are those of the board loaded
\* from the same FEN with its missing fields.
TruncatedFENLoadsAsComplete ==
  lastCall.kind = "fromFEN" =>
    /\ lastCall.success = TRUE
    /\ state(lastCall.board).fiftyRule = 0
    /\ fullMoveNumber(lastCall.board) = 1
    /\ lastCall.complete.success = "true"
    /\ state(lastCall.board).checkGivers = state(lastCall.complete.board).checkGivers
    /\ state(lastCall.board).checkBlockers = state(lastCall.complete.board).checkBlockers
    /\ state(lastCall.board).pinners = state(lastCall.complete.board).pinners

(***************************************************************************)
(* Engine.cpp, EngineXboard.cpp, EngineUCI.cpp: the commands that set the  *)
(* position and the commands that move                                     *)
(***************************************************************************)
EngineFENs ==
  {
   \* a complete FEN: 4k3/7p/8/8/8/8/4P3/4K2R w K - 0 1
   <<"4", "k", "3", "/", "7", "p", "/", "8", "/", "8", "/", "8", "/", "8", "/", "4", "P",
    "3", "/", "4", "K", "2", "R", " ", "w", " ", "K", " ", "-", " ", "0", " ", "1">>,
   \* the en-passant square lacks its rank: newGame returns false: 4k3/7p/8/8/8/8/4P3/4K2R w K e
   <<"4", "k", "3", "/", "7", "p", "/", "8", "/", "8", "/", "8", "/", "8", "/", "4", "P",
    "3", "/", "4", "K", "2", "R", " ", "w", " ", "K", " ", "e">>,
   \* the placement alone: newGame returns false: 4k3/7p/8/8/8/8/4P3/4K2R
   <<"4", "k", "3", "/", "7", "p", "/", "8", "/", "8", "/", "8", "/", "8", "/", "4", "P",
    "3", "/", "4", "K", "2", "R">>
  }

\* the default argument of engine::newGame
DefaultFEN ==
  <<"r", "n", "b", "q", "k", "b", "n", "r", "/", "p", "p", "p", "p", "p", "p", "p", "p", "/",
   "8", "/", "8", "/", "8", "/", "8", "/", "P", "P", "P", "P", "P", "P", "P", "P", "/", "R",
   "N", "B", "Q", "K", "B", "N", "R", " ", "w", " ", "K", "Q", "k", "q", " ", "-">>

MaxCommands == 2

legalMovesOf(b) == {m \in movesOf(b, ALL_MOVES) : isLegal(b, m)}

\* engine::newGame: the board is replaced whether or not the FEN was read to its end;
\* bool success is not initialised and holds either value if fromFEN does not write it
newGame(fen, uninitialised) ==
  LET r == fromFEN(fen)
  IN [board |-> r.board,
      returned |-> IF r.success = "unset" THEN uninitialised ELSE r.success = "true"]

\* engine::makeMove
engineMakeMove(game, move) ==
  LET m == makeMoveFromString(game.board, move)
  IN IF m = nullMove THEN [game EXCEPT !.ok = FALSE]
     ELSE [board |-> makeMove(game.board, m), history |-> Append(game.history, m), ok |-> TRUE]

\* engine::unmakeMove
engineUnmakeMove(game) ==
  IF game.history = <<>> THEN [game EXCEPT !.ok = FALSE]
  ELSE [board |-> unmakeMove(game.board, game.history[Len(game.history)]),
        history |-> SubSeq(game.history, 1, Len(game.history) - 1), ok |-> TRUE]

\* xboardCheckForGameOver: a draw, or no legal move
xboardCheckForGameOver(b) == isDraw(b, 0) \/ legalMovesOf(b) = {}

\* the moves rootSearch may return as best: a legal move of the root when it has
\* completed an iteration, the null move when the root has none
rootSearchBest(b) == IF legalMovesOf(b) = {} THEN {nullMove} ELSE legalMovesOf(b)

\* xboardGo, with the move rootSearch returned
xboardGo(game, best) ==
  IF best = nullMove /\ xboardCheckForGameOver(game.board) THEN game
  ELSE [board |-> makeMove(game.board, best), history |-> Append(game.history, best), ok |-> TRUE]

\* uciGo, with the move rootSearch returned
uciGo(game, best) ==
  [board |-> makeMove(game.board, best), history |-> Append(game.history, best), ok |-> TRUE]

Game == [board |-> g_board, history |-> g_moveHistory, ok |-> TRUE]

\* the strings a user sends as moves: those of the generated moves, and one more
userMoves(b) ==
  {squareToString(getFrom(m)) \o squareToString(getTo(m)) : m \in movesOf(b, ALL_MOVES)}
  \cup {<<"e", "2", "e", "4">>}

\* engine::run, before the first command
EngineInit ==
  /\ PlayIdle
  /\ TTIdle
  /\ SEEIdle
  /\ SearchIdle
  /\ PerftIdle
  /\ EvalIdle
  /\ CallIdle
  /\ session \in {[NoSession EXCEPT !.mode = mode] : mode \in {"xboard", "uci"}}
  /\ options = [DefaultOptions EXCEPT !.g_forceMode = (session.mode = "uci")]

\* another command is read
Reads(mode) == session.mode = mode /\ session.commands < MaxCommands

\* what a command leaves of the session: the command, and the board its newGame loaded
Commanded(command, failed, loaded) ==
  /\ session' = [session EXCEPT !.command = command, !.positionFailed = failed,
                                !.loaded = loaded, !.commands = @ + 1]
  /\ UNCHANGED <<pending, snapshot>>
  /\ UNCHANGED exceptEngine

Played(game) ==
  /\ g_board' = game.board
  /\ g_moveHistory' = game.history

\* handleXboard, "new"
XboardNew ==
  /\ Reads("xboard")
  /\ \E uninitialised \in BOOLEAN :
       \E r \in {newGame(DefaultFEN, uninitialised)} :
         /\ Played([board |-> r.board, history |-> <<>>])
         /\ g_fen' = DefaultFEN
         /\ options' = [options EXCEPT !.g_isIllegalPosition = FALSE, !.g_forceMode = FALSE]
         /\ Commanded("new", FALSE, r.board)

\* handleXboard, "setboard"
XboardSetboard ==
  /\ Reads("xboard")
  /\ \E fen \in EngineFENs, uninitialised \in BOOLEAN :
       \E r \in {newGame(fen, uninitialised)} :
         /\ Played([board |-> r.board, history |-> <<>>])
         /\ g_fen' = fen
         /\ options' = [options EXCEPT !.g_isIllegalPosition = ~r.returned]
         /\ Commanded("setboard", ~r.returned, r.board)

\* handleXboard, "force"
XboardForce ==
  /\ Reads("xboard")
  /\ options' = [options EXCEPT !.g_forceMode = TRUE]
  /\ UNCHANGED <<g_board, g_moveHistory, g_fen>>
  /\ Commanded("force", session.positionFailed, g_board)

\* a position has been set: the interfaces send new, setboard or position before any
\* move, and the board of the constructor has no king to generate moves for
PositionSet == g_fen # <<>>

\* handleXboard, "go"
XboardGo ==
  /\ Reads("xboard")
  /\ PositionSet
  /\ \E best \in rootSearchBest(g_board) : Played(xboardGo(Game, best))
  /\ options' = [options EXCEPT !.g_forceMode = FALSE]
  /\ UNCHANGED g_fen
  /\ Commanded("go", session.positionFailed, g_board)

\* handleXboard, "usermove"
XboardUsermove ==
  /\ Reads("xboard")
  /\ PositionSet
  /\ \E move \in userMoves(g_board) :
       \E made \in {IF options.g_isIllegalPosition THEN [Game EXCEPT !.ok = FALSE]
                    ELSE engineMakeMove(Game, move)} :
         IF made.ok /\ ~xboardCheckForGameOver(made.board) /\ ~options.g_forceMode
           THEN \E best \in rootSearchBest(made.board) : Played(xboardGo(made, best))
           ELSE Played(made)
  /\ UNCHANGED <<g_fen, options>>
  /\ Commanded("usermove", session.positionFailed, g_board)

\* handleXboard, "undo"
XboardUndo ==
  /\ Reads("xboard")
  /\ Played(engineUnmakeMove(Game))
  /\ UNCHANGED <<g_fen, options>>
  /\ Commanded("undo", session.positionFailed, g_board)

\* handleXboard, "remove": !unmakeMove() || !unmakeMove()
XboardRemove ==
  /\ Reads("xboard")
  /\ \E first \in {engineUnmakeMove(Game)} :
       Played(IF first.ok THEN engineUnmakeMove(first) ELSE first)
  /\ UNCHANGED <<g_fen, options>>
  /\ Commanded("remove", session.positionFailed, g_board)

\* handleUCI, "position fen ... [moves move]": the value of newGame is not looked at
UciPosition ==
  /\ Reads("uci")
  /\ \E fen \in EngineFENs, uninitialised \in BOOLEAN :
       \E r \in {newGame(fen, uninitialised)} :
         /\ \/ Played([board |-> r.board, history |-> <<>>])
            \/ \E move \in userMoves(r.board) :
                 Played(engineMakeMove([board |-> r.board, history |-> <<>>, ok |-> TRUE], move))
         /\ g_fen' = fen
         /\ Commanded("position", ~r.returned, r.board)
  /\ UNCHANGED options

\* handleUCI, "go"
UciGo ==
  /\ Reads("uci")
  /\ PositionSet
  /\ \E best \in rootSearchBest(g_board) : Played(uciGo(Game, best))
  /\ UNCHANGED <<g_fen, options>>
  /\ Commanded("go", session.positionFailed, g_board)

EngineNext ==
  \/ XboardNew
  \/ XboardSetboard
  \/ XboardForce
  \/ XboardGo
  \/ XboardUsermove
  \/ XboardUndo
  \/ XboardRemove
  \/ UciPosition
  \/ UciGo

SpecEngine == EngineInit /\ [][EngineNext]_vars

\* C16 (as stated): once a position command has failed, no command makes or unmakes a
\* move on the board until a position command succeeds: the board stays as the failed
\* newGame left it.
MovesRefusedAfterFailedPosition ==
  [][session'.positionFailed =>
       g_board' = IF session'.command \in {"setboard", "position"} THEN session'.loaded
                  ELSE g_board]_vars

(***************************************************************************)
(* The hash kept in StateInfo                                              *)
(***************************************************************************)
\* the keys of the pieces on the board
placementKeys(b) == {ZPIECE(b.m_board[sq], sq) : sq \in {s \in Squares : b.m_board[s] # NONE}}

\* the moves made since the FEN was loaded and not unmade: each pushed a StateInfo
movesMade(b) == Len(b.m_states) - 1

\* C17 (as stated): after fromFEN and after any makeMove and unmakeMove, the stored hash
\* is the XOR of the keys of the pieces on the board and of MOVE_KEY once per move made,
\* with no key of the side to move, of the en-passant file or of the castling rights.
StoredHashIsPlacementAndMoveKeys ==
  state(g_board).hash =
    hxor(placementKeys(g_board), IF movesMade(g_board) % 2 = 1 THEN {MOVE_KEY} ELSE {})

(***************************************************************************)
(* Moves and null moves made and unmade as a search does                   *)
(***************************************************************************)
MaxTreePly == 3

TreeInit == PlayInit

\* makeMove of a legal move
TreeMakeMove ==
  /\ Len(g_moveHistory) < MaxTreePly
  /\ \E m \in movesOf(g_board, ALL_MOVES) :
       /\ isLegal(g_board, m)
       /\ g_board' = makeMove(g_board, m)
       /\ g_moveHistory' = Append(g_moveHistory, m)
  /\ UNCHANGED <<g_fen, pending, snapshot>>
  /\ UNCHANGED exceptPlay

\* makeNullMove, which the search tries when the side to move is not in check
TreeMakeNullMove ==
  /\ Len(g_moveHistory) < MaxTreePly
  /\ ~isInCheck(g_board)
  /\ g_board' = makeNullMove(g_board)
  /\ g_moveHistory' = Append(g_moveHistory, nullMove)
  /\ UNCHANGED <<g_fen, pending, snapshot>>
  /\ UNCHANGED exceptPlay

\* unmakeMove of the last move made
TreeUnmakeMove ==
  /\ g_moveHistory # <<>>
  /\ g_moveHistory[Len(g_moveHistory)] # nullMove
  /\ g_board' = unmakeMove(g_board, g_moveHistory[Len(g_moveHistory)])
  /\ g_moveHistory' = SubSeq(g_moveHistory, 1, Len(g_moveHistory) - 1)
  /\ UNCHANGED <<g_fen, pending, snapshot>>
  /\ UNCHANGED exceptPlay

\* unmakeNullMove of the null move made last
TreeUnmakeNullMove ==
  /\ g_moveHistory # <<>>
  /\ g_moveHistory[Len(g_moveHistory)] = nullMove
  /\ g_board' = unmakeNullMove(g_board)
  /\ g_moveHistory' = SubSeq(g_moveHistory, 1, Len(g_moveHistory) - 1)
  /\ UNCHANGED <<g_fen, pending, snapshot>>
  /\ UNCHANGED exceptPlay

TreeNext == TreeMakeMove \/ TreeMakeNullMove \/ TreeUnmakeMove \/ TreeUnmakeNullMove

SpecTree == TreeInit /\ [][TreeNext]_vars

\* the squares of the square array holding pieces of a colour
squaresOf(b, color) == {sq \in Squares : b.m_board[sq] # NONE /\ getColor(b.m_board[sq]) = color}

RECURSIVE materialOver(_, _)
materialOver(b, squares) ==
  IF squares = {} THEN 0
  ELSE LET sq == lsb(squares)
       IN materialOf(getType(b.m_board[sq])) + materialOver(b, squares \ {sq})

RECURSIVE scoreOver(_, _)
scoreOver(b, squares) ==
  IF squares = {} THEN Z
  ELSE LET sq == lsb(squares)
       IN scoreAdd(PST(b.m_board[sq], sq), scoreOver(b, squares \ {sq}))

\* C18: after fromFEN and any makeMove, unmakeMove, makeNullMove and unmakeNullMove, the
\* square array and the piece bitboards hold the same pieces, each colour bitboard is the
\* union of the bitboards of its pieces, the two colour bitboards are disjoint and make up
\* allPieces, and material and score of each colour are the sums over the square array.
RepresentationsAgree ==
  /\ \A sq \in Squares, p \in Pieces : (g_board.m_board[sq] = p) <=> (sq \in byPiece(g_board, p))
  /\ \A sq \in Squares : g_board.m_board[sq] \in Pieces \cup {NONE}
  /\ \A c \in Colors :
       byColor(g_board, c) = UNION {byPiece(g_board, p) : p \in {q \in Pieces : getColor(q) = c}}
  /\ byColor(g_board, WHITE) \cap byColor(g_board, BLACK) = {}
  /\ allPieces(g_board) = byColor(g_board, WHITE) \cup byColor(g_board, BLACK)
  /\ \A c \in Colors :
       /\ g_board.m_material[c] = materialOver(g_board, squaresOf(g_board, c))
       /\ g_board.m_score[c] = scoreOver(g_board, squaresOf(g_board, c))

\* an en-passant capture has been made, and a null move after it
NullMoveAfterEnpassant ==
  /\ Len(g_moveHistory) = 2
  /\ getMoveType(g_moveHistory[1]) = ENPASSANT
  /\ g_moveHistory[2] = nullMove

(***************************************************************************)
(* The fifty-rule counter after makeMove                                   *)
(***************************************************************************)

\* the moves that Board::fiftyRuleDraw's comment calls irreversible: captures,
\* castlings, pawn pushes and promotions (en-passant captures are both)
isIrreversible(b, m) ==
  \/ getMoveType(m) \in {PROMOTION, ENPASSANT, CASTLE}
  \/ b.m_board[getTo(m)] # NONE
  \/ getType(b.m_board[getFrom(m)]) = PAWN

\* C19: after every makeMove, the fifty-rule counter of the new state is 0 if the
\* move was a capture, a pawn move, a promotion, an en-passant capture or a
\* castling, and is the previous state's counter plus 1 otherwise.
FiftyRuleAfterMakeMove ==
  pending.phase = "made" =>
    state(g_board).fiftyRule =
      IF isIrreversible(snapshot, pending.move) THEN 0 ELSE state(snapshot).fiftyRule + 1

\* the same with castling left out: holds in every state of the game specification
FiftyRuleAfterMakeMoveButCastling ==
  (pending.phase = "made" /\ getMoveType(pending.move) # CASTLE) =>
    state(g_board).fiftyRule =
      IF isIrreversible(snapshot, pending.move) THEN 0 ELSE state(snapshot).fiftyRule + 1

(***************************************************************************)
(* The repetition scan of makeMove                                         *)
(***************************************************************************)

\* the even ply distances from..upto at which an earlier state of the stack has the
\* stored hash of the current state
repeatedAt(b, from, upto) ==
  {d \in from..upto : /\ d % 2 = 0
                      /\ d < Len(b.m_states)
                      /\ b.m_states[Len(b.m_states) - d].hash = state(b).hash}

smallestOf(distances) == CHOOSE d \in distances : \A e \in distances : d <= e

\* C20: after every makeMove, with L = min(fiftyRule, movesFromNull) of the new
\* state: lastRepetition is 0 if no earlier state at an even ply distance d with
\* 4 <= d <= L has the same stored hash as the new state, and otherwise
\* lastRepetition equals the smallest such distance d.
LastRepetitionIsSmallestDistance ==
  Len(g_moveHistory) > 0 =>
    LET L == Min(state(g_board).fiftyRule, state(g_board).movesFromNull)
        distances == repeatedAt(g_board, 4, L)
    IN state(g_board).lastRepetition = IF distances = {} THEN 0 ELSE smallestOf(distances)

\* what the scan does store: it stops one state short of distance L, and records
\* the number of states from the match to the end of the stack, d + 1
LastRepetitionAsScanned ==
  Len(g_moveHistory) > 0 =>
    LET L == Min(state(g_board).fiftyRule, state(g_board).movesFromNull)
        distances == repeatedAt(g_board, 4, L - 1)
    IN state(g_board).lastRepetition = IF distances = {} THEN 0 ELSE smallestOf(distances) + 1

\* the position after the last irreversible move has come back, at distance L, and
\* lastRepetition is 0
RepetitionAtFullDistanceMissed ==
  /\ Len(g_moveHistory) > 0
  /\ state(g_board).lastRepetition = 0
  /\ LET L == Min(state(g_board).fiftyRule, state(g_board).movesFromNull)
     IN L >= 4 /\ L \in repeatedAt(g_board, 4, L)

(***************************************************************************)
(* Board.h: what search asks of the board                                  *)
(***************************************************************************)
isQuiet(b, m) ==
  IF getMoveType(m) = SIMPLE THEN b.m_board[getTo(m)] = NONE
  ELSE IF getMoveType(m) \in {PROMOTION, ENPASSANT} THEN FALSE
  ELSE TRUE

computeAttacksOf(piece, sq, occ) ==
  IF getType(piece) = NONE THEN {}
  ELSE IF getType(piece) = PAWN THEN pawnAttacks(getColor(piece), sq)
  ELSE attacksOf(getType(piece), sq, occ)

\* the special cases of givesCheck: en passant and castling
givesCheckSpecial(b, m, side, kingSq, occ, capturedSq, rookTo) ==
  IF getMoveType(m) = ENPASSANT
    THEN (IF capturedSq \in pseudoAttacks(BISHOP, kingSq)
            THEN attacksOf(BISHOP, kingSq, (occ \ {capturedSq}) \cup {getTo(m)})
                   \cap bishopsAndQueens(b, side) # {}
          ELSE IF getRank(kingSq) = getRank(capturedSq)
            THEN attacksOf(ROOK, kingSq, (occ \ {capturedSq}) \cup {getTo(m)})
                   \cap rooksAndQueens(b, side) # {}
          ELSE FALSE)
  ELSE IF getMoveType(m) = CASTLE
    THEN getFile(rookTo) = getFile(kingSq) /\ rookTo \in attacksOf(ROOK, kingSq, occ)
  ELSE FALSE

givesCheckBy(b, m, side, piece, kingSq, occ) ==
  IF kingSq \in computeAttacksOf(piece, getTo(m), occ) THEN TRUE
  ELSE IF getFrom(m) \in checkBlockers(b, getOpposite(side))
    THEN ~areAligned(getFrom(m), getTo(m), kingSq) \/ getMoveType(m) = CASTLE
  ELSE givesCheckSpecial(b, m, side, kingSq, occ, Square(getFile(getTo(m)), getRank(getFrom(m))),
                         makeRelativeSquare(side, IF getTo(m) = G1 THEN F1 ELSE D1))

givesCheck(b, m) ==
  givesCheckBy(b, m, getColor(b.m_board[getFrom(m)]),
               IF getMoveType(m) # PROMOTION THEN b.m_board[getFrom(m)]
               ELSE Piece(getColor(b.m_board[getFrom(m)]), getPromotedPiece(m)),
               king(b, getOpposite(getColor(b.m_board[getFrom(m)]))),
               b_xor(allPieces(b), {getFrom(m)}))

(***************************************************************************)
(* Zobrist.cpp: the 64-bit value of a hash.  The key tables are fixed      *)
(* numbers; a hash, the set of the keys XORed in, is given a number that   *)
(* depends on that set only.                                               *)
(***************************************************************************)
keyNumber(key) ==
  CASE key[1] = "PIECE" -> 1 + 64 * key[2] + key[3]
    [] key[1] = "SIDE" -> 1001 + key[2]
    [] key[1] = "EP" -> 1011 + key[2]
    [] key[1] = "CASTLING" -> 1021 + key[2]
    [] key[1] = "MOVE_KEY" -> 1091
    [] OTHER -> 1093

RECURSIVE hashNumber(_)
hashNumber(hash) ==
  IF hash = {} THEN 1
  ELSE LET key == CHOOSE k \in hash : \A other \in hash : keyNumber(k) <= keyNumber(other)
       IN (keyNumber(key) * (keyNumber(key) + 7) + 31 * hashNumber(hash \ {key})) % 1000003

(***************************************************************************)
(* MovePicker.h                                                            *)
(***************************************************************************)
SECOND_KILLER == 110
FIRST_KILLER == 120
CAPTURE == 1000
TRANSPOSITION_TABLE == 30000
HISTORY_SUCCESS_ADD == 1
HISTORY_TRY_ADD == 2

SearchStack == [firstKiller |-> nullMove, secondKiller |-> nullMove]

\* getHistoryValue
getHistoryValue(successes, tries, piece, to) ==
  I16(((tableAt(successes, <<piece, to>>, 0) + HISTORY_SUCCESS_ADD) * 100)
      \div (tableAt(tries, <<piece, to>>, 0) + HISTORY_TRY_ADD))

\* addHistoryTry, addHistorySuccess: the table after the call
addHistory(table, b, m, depth) ==
  tablePut(table, <<b.m_board[getFrom(m)], getTo(m)>>,
           tableAt(table, <<b.m_board[getFrom(m)], getTo(m)>>, 0) + depth * depth)

\* the constructor: the value given to a move
moveValue(b, m, tableMove, ss, successes, tries) ==
  IF m = tableMove THEN TRANSPOSITION_TABLE
  ELSE IF isQuiet(b, m)
    THEN (IF m = ss.firstKiller THEN FIRST_KILLER
          ELSE IF m = ss.secondKiller THEN SECOND_KILLER
          ELSE getHistoryValue(successes, tries, b.m_board[getFrom(m)], getTo(m)))
  ELSE I16(CAPTURE
           + (SIMPLIFIED_PIECE_VALUES(IF getMoveType(m) = ENPASSANT THEN Piece(WHITE, PAWN)
                                      ELSE b.m_board[getTo(m)])
              + SIMPLIFIED_PIECE_VALUES(IF getMoveType(m) = PROMOTION
                                          THEN Piece(WHITE, getPromotedPiece(m)) ELSE NONE)) * 2
           - SIMPLIFIED_PIECE_VALUES(b.m_board[getFrom(m)]))

\* the constructor: the moves not yet picked, each with its value
MovePicker(b, moves, tableMove, ss, successes, tries) ==
  [k \in 1..Len(moves) |-> [m |-> moves[k],
                            value |-> moveValue(b, moves[k], tableMove, ss, successes, tries)]]

hasMore(picker) == picker # <<>>

\* pick: the index of the first move of the greatest value
bestIndex(picker) ==
  CHOOSE k \in 1..Len(picker) :
    /\ \A j \in 1..Len(picker) : picker[j].value <= picker[k].value
    /\ \A j \in 1..(k - 1) : picker[j].value < picker[k].value

\* pick: the move returned
pick(picker) == picker[bestIndex(picker)].m

\* pick: the moves left, the first one put where the best was
afterPick(picker) ==
  Tail([picker EXCEPT ![bestIndex(picker)] = picker[1]])


(***************************************************************************)
(* Search.cpp: search and quiescence.  An invocation is a record of its    *)
(* arguments and local variables; it runs from its entry, or from the      *)
(* return of the search it called, to its next call or to its return.      *)
(***************************************************************************)
DELTA_PRUNING_MARGIN == 200
MAX_QPLY_FOR_CHECKS == 2
MIN_NULLMOVE_DEPTH == 2
NULLMOVE_DEPTH_REDUCTION_BASE == 3
MIN_NULLMOVE_VERIFICATION_DEPTH == 5
MIN_LMR_DEPTH == 3
MAX_LOW_DEPTH_SEE_PRUNING_DEPTH == 3
NULLMOVE_HIGH_DEPTH_DENOMINATOR == 5
NULLMOVE_BETA_DIFFERENCE_DENOMINATOR == 300
LMR_MAX_HISTORY_SUCCESS_RATE == 75
LMR_MIN_QUIETS_COUNT == 2
LMR_HIGH_DEPTH_DENOMINATOR == 9
LMR_MANY_QUIETS_DENOMINATOR == 9
FUTILITY_MARGIN == <<0, 50, 200, 400, 700>>
MAX_SUCCESS_RATE == <<0, 20, 12, 7, 3>>
MAX_MOVES == 256

\* the local variables of an invocation, and where it waits for the search it called:
\* "null", "verify", "iid", "first", "zw", "lmr", "pvs" in search, "q" in quiescence
Frame(c) ==
  [fn |-> c.fn, NT |-> c.NT, alpha |-> c.alpha, beta |-> c.beta, depth |-> c.depth, ply |-> c.ply,
   qply |-> c.qply, pc |-> "entry", staticEval |-> 0, isInCheck |-> FALSE, tableMove |-> nullMove,
   R |-> 0, tmp |-> 0, picker |-> <<>>, m |-> nullMove, isQuiet |-> FALSE, legalMovesCount |-> 0,
   quietMovesCount |-> 0, reduction |-> 0, entryType |-> ALPHA, bestMove |-> nullMove]

\* what search and quiescence read and write
Machine ==
  [board |-> g_board, stop |-> g_mustStop, pvs |-> g_PVs, table |-> s_table, written |-> ttWritten,
   tries |-> s_historyTries, successes |-> s_historySuccesses, ss |-> g_searchStacks,
   nodes |-> g_nodesCount, stack |-> stack, link |-> link]

\* return value;
returns(M, value) == [M EXCEPT !.link = Return(value)]

\* the invocation calls c and waits at pc
calls(M, f, pc, c) == [M EXCEPT !.stack = Append(@, [f EXCEPT !.pc = pc]), !.link = c]

\* return quiescence(...): the value of the call is the value returned
tailCalls(M, c) == [M EXCEPT !.link = c]

\* lines 180-196, 493-508: what the poll of the limits and of the input may find when
\* nodes have been counted: nothing, "limit" (the hard limit or the node limit is
\* broken), "input" (checkInput read a command that stops the search)
Polls(nodes) ==
  {"none"} \cup (IF nodes % 512 = 0 THEN {"limit"} ELSE {})
           \cup (IF nodes % 8192 = 0 THEN {"input"} ELSE {})

\* g_PVs[ply].clear(); push(m); mergeWith(g_PVs[ply + 1], 1)
pvUpdate(pvs, ply, m) ==
  tablePut(pvs, ply, SubSeq(<<m>> \o pvAt(pvs, ply + 1), 1,
                            Min(MAX_MOVES, 1 + Len(pvAt(pvs, ply + 1)))))

(***************************************************************************)
(* quiescence                                                              *)
(***************************************************************************)
\* lines 614-618
quiescenceFinish(M, f) ==
  IF f.legalMovesCount = 0 /\ isInCheck(M.board) THEN returns(M, I16(-MATE + f.ply))
  ELSE returns(M, f.alpha)

\* lines 560-586: is the legal move m skipped
quiescencePrunes(b, f, m) ==
  /\ ~f.isInCheck
  /\ hasNonPawns(b, b.m_side)
  /\ \/ /\ getMoveType(m) # PROMOTION
        /\ f.staticEval
             + SIMPLIFIED_PIECE_VALUES(IF getMoveType(m) = ENPASSANT THEN Piece(WHITE, PAWN)
                                       ELSE b.m_board[getTo(m)])
             + DELTA_PRUNING_MARGIN <= f.alpha
        /\ ~givesCheck(b, m)
     \/ SEE(b, m) < 0

\* lines 552-590: the loop, up to the next move searched
RECURSIVE quiescenceLoop(_, _)
quiescenceLoop(M, f) ==
  IF ~hasMore(f.picker) THEN quiescenceFinish(M, f)
  ELSE LET m == pick(f.picker)
           rest == [f EXCEPT !.picker = afterPick(f.picker)]
           counted == [rest EXCEPT !.legalMovesCount = (@ + 1) % 256, !.m = m]
       IN IF ~isLegal(M.board, m) THEN quiescenceLoop(M, rest)
          ELSE IF quiescencePrunes(M.board, f, m) THEN quiescenceLoop(M, counted)
          ELSE calls([M EXCEPT !.nodes = @ + 1, !.board = makeMove(@, m)], counted, "q",
                     Call("quiescence", f.NT, -f.beta, -f.alpha, 0, f.ply + 1, f.qply + 1))

\* lines 609-611: the cut, or the next move
quiescenceAlphaBeta(M, f) ==
  IF f.alpha >= f.beta THEN quiescenceFinish(M, f) ELSE quiescenceLoop(M, f)

\* lines 593-607: the stop check, alpha and the variation
quiescenceUnmade(M, f, tmp) ==
  IF M.stop THEN returns(M, f.alpha)
  ELSE quiescenceAlphaBeta([M EXCEPT !.pvs = IF tmp > f.alpha /\ f.NT = PV
                                               THEN pvUpdate(@, f.ply, f.m) ELSE @],
                           IF tmp > f.alpha THEN [f EXCEPT !.alpha = tmp] ELSE f)

\* lines 590-611: the search of the move has returned value
quiescenceAfterMove(M, f, value) ==
  quiescenceUnmade([M EXCEPT !.board = unmakeMove(@, f.m)], f, -value)

\* lines 539-549: move generation and the picker
quiescenceMoves(b, f) ==
  IF ~f.isInCheck /\ f.qply < MAX_QPLY_FOR_CHECKS
    THEN generateMoves(b, QUIET_CHECKS, generateMoves(b, CAPTURES, <<>>))
    ELSE generateMoves(b, CAPTURES, <<>>)

\* lines 510-549: the node, the stop flag and the limits passed
quiescenceNode(M, f, staticEval, inCheck) ==
  IF isDraw(M.board, f.ply) THEN returns(M, 0)
  ELSE IF f.ply > MAX_DEPTH THEN returns(M, f.alpha)
  ELSE IF ~inCheck /\ staticEval >= f.beta THEN returns(M, staticEval)
  ELSE LET f1 == [f EXCEPT !.staticEval = staticEval, !.isInCheck = inCheck,
                           !.alpha = IF ~inCheck /\ staticEval > @ THEN staticEval ELSE @]
       IN quiescenceLoop(M, [f1 EXCEPT !.picker = MovePicker(M.board, quiescenceMoves(M.board, f1),
                                                              nullMove, SearchStack,
                                                              M.successes, M.tries)])

\* lines 492-512: quiescence is entered with the call c
quiescenceEntry(M, c, poll) ==
  IF M.stop THEN returns(M, c.alpha)
  ELSE IF poll = "limit" THEN returns([M EXCEPT !.stop = TRUE], c.alpha)
  ELSE quiescenceNode([M EXCEPT !.stop = (poll = "input"),
                                !.pvs = IF c.NT = PV THEN tablePut(@, c.ply, <<>>) ELSE @],
                      Frame(c), eval(M.board, Z), isInCheck(M.board))

(***************************************************************************)
(* search                                                                  *)
(***************************************************************************)
childCall(f, NT, alpha, beta, depth) == Call("search", NT, alpha, beta, depth, f.ply + 1, 0)

\* lines 478-488: the record in the table, the value returned
searchRecord(M, f, alpha, type, hash, slot) ==
  returns([M EXCEPT !.table = tryRecord(@, s_rootAge, type, hash, f.bestMove, alpha,
                                        M.board.m_moveCount % 65536, f.depth % 256, f.ply),
                    !.written = IF slot = "nullptr" THEN @
                                ELSE [@ EXCEPT ![hash % s_tableSize][slot] =
                                        [value |-> alpha, ply |-> f.ply]]],
          alpha)

\* lines 471-488: the value of a node without legal moves, the record in the table
searchFinishAt(M, f, alpha, type, hash) ==
  searchRecord(M, f, alpha, type, hash, recordedSlot(M.table, s_rootAge, type, hash, f.depth % 256))

searchFinish(M, f) ==
  searchFinishAt(M, f,
                 IF f.legalMovesCount # 0 THEN f.alpha
                 ELSE IF isInCheck(M.board) THEN I16(-MATE + f.ply) ELSE 0,
                 f.entryType + f.NT, hashNumber(computeHash(M.board)))

\* lines 396-412: the reduction of a late quiet move
lmrReduction(depth, quietMovesCount, historySuccessRate) ==
  LET base == 1 + (depth - MIN_LMR_DEPTH) \div LMR_HIGH_DEPTH_DENOMINATOR
                + (quietMovesCount - LMR_MIN_QUIETS_COUNT) \div LMR_MANY_QUIETS_DENOMINATOR
      reduction == IF historySuccessRate > 50 THEN base - 1
                   ELSE IF historySuccessRate < 2 THEN base + 2
                   ELSE IF historySuccessRate < 10 THEN base + 1
                   ELSE base
  IN IF reduction >= depth THEN depth - 1 ELSE reduction

\* lines 417-423: the first search of the move made
searchFirst(M, f) ==
  IF f.legalMovesCount = 1
    THEN calls(M, f, "first", childCall(f, f.NT, -f.beta, -f.alpha, f.depth - 1))
    ELSE calls(M, f, "zw",
               childCall(f, NON_PV, -f.alpha - 1, -f.alpha, f.depth - 1 - f.reduction))

\* lines 388-414: late move reductions; counted tells that ++quietMovesCount is reached
searchReduced(M, f, rate, counted, quiets) ==
  searchFirst(M, [f EXCEPT !.quietMovesCount = quiets,
                           !.reduction = IF counted /\ quiets > LMR_MIN_QUIETS_COUNT
                                           THEN lmrReduction(f.depth, quiets, rate) ELSE 0])

searchCounted(M, f, rate, counted) ==
  searchReduced(M, f, rate, counted,
                IF counted THEN (f.quietMovesCount + 1) % 256 ELSE f.quietMovesCount)

searchRated(M, f, rate) ==
  searchCounted(M, f, rate,
                /\ f.depth >= MIN_LMR_DEPTH
                /\ ~f.isInCheck
                /\ ~isInCheck(M.board)
                /\ f.isQuiet
                /\ rate < LMR_MAX_HISTORY_SUCCESS_RATE)

\* lines 382-393: the move is counted and made
searchMade(M, f, tries, made) ==
  searchRated([M EXCEPT !.tries = tries, !.nodes = @ + 1, !.board = made], f,
              getHistoryValue(M.successes, tries, made.m_board[getTo(f.m)], getTo(f.m)))

\* lines 377-423: the move f.m is made and searched
searchMove(M, f) ==
  searchMade(M, f,
             IF f.isQuiet /\ ~f.isInCheck THEN addHistory(M.tries, M.board, f.m, f.depth)
             ELSE M.tries,
             makeMove(M.board, f.m))

\* lines 355-375: is the legal move m skipped; quiets is quietMovesCount after the test
searchPrunes(M, f, m, quiets) ==
  /\ f.NT # PV
  /\ f.depth <= MAX_LOW_DEPTH_SEE_PRUNING_DEPTH
  /\ ~f.isInCheck
  /\ hasNonPawns(M.board, M.board.m_side)
  /\ \/ SEE(M.board, m) <= -SIMPLIFIED_PIECE_VALUES(Piece(WHITE, PAWN)) * f.depth
     \/ /\ isQuiet(M.board, m)
        /\ quiets > LMR_MIN_QUIETS_COUNT
        /\ getHistoryValue(M.successes, M.tries, M.board.m_board[getFrom(m)], getTo(m))
             < MAX_SUCCESS_RATE[f.depth + 1]
        /\ ~givesCheck(M.board, m)

\* line 367: ++quietMovesCount is reached
searchCountsQuiet(M, f, m) ==
  /\ f.NT # PV
  /\ f.depth <= MAX_LOW_DEPTH_SEE_PRUNING_DEPTH
  /\ ~f.isInCheck
  /\ hasNonPawns(M.board, M.board.m_side)
  /\ SEE(M.board, m) > -SIMPLIFIED_PIECE_VALUES(Piece(WHITE, PAWN)) * f.depth
  /\ isQuiet(M.board, m)

RECURSIVE searchLoop(_, _)

\* lines 355-383: the legal move f.m is skipped or made; quiets is quietMovesCount after
\* the test of line 367
searchLegal(M, f, quiets) ==
  IF searchPrunes(M, f, f.m, quiets) THEN searchLoop(M, [f EXCEPT !.quietMovesCount = quiets])
  ELSE searchMove(M, [f EXCEPT !.quietMovesCount = quiets])

\* lines 347-354: the move picked
searchPicked(M, f, m) ==
  IF ~isLegal(M.board, m) THEN searchLoop(M, f)
  ELSE searchLegal(M, [f EXCEPT !.legalMovesCount = (@ + 1) % 256, !.m = m,
                                !.isQuiet = isQuiet(M.board, m)],
                   IF searchCountsQuiet(M, f, m) THEN (f.quietMovesCount + 1) % 256
                   ELSE f.quietMovesCount)

\* lines 346-383: the loop, up to the next move searched
searchLoop(M, f) ==
  IF ~hasMore(f.picker) THEN searchFinish(M, f)
  ELSE searchPicked(M, [f EXCEPT !.picker = afterPick(f.picker)], pick(f.picker))

\* lines 458-467: the cut: history, killers
searchCut(M, f) ==
  LET ss == tableAt(M.ss, f.ply, SearchStack)
  IN IF f.isQuiet /\ ~f.isInCheck
       THEN [M EXCEPT !.successes = addHistory(@, M.board, f.m, f.depth),
                      !.ss = IF ss.firstKiller # f.m
                               THEN tablePut(@, f.ply, [firstKiller |-> f.m,
                                                        secondKiller |-> ss.firstKiller])
                               ELSE @]
       ELSE M

\* lines 458-468: the cut, or the next move
searchAlphaBeta(M, f) ==
  IF f.alpha >= f.beta THEN searchFinish(searchCut(M, f), [f EXCEPT !.entryType = BETA])
  ELSE searchLoop(M, f)

\* lines 432-456: the stop check, alpha and the variation
searchUnmade(M, f, tmp) ==
  IF M.stop THEN returns(M, f.alpha)
  ELSE searchAlphaBeta([M EXCEPT !.pvs = IF tmp > f.alpha \/ (f.ply = 0 /\ f.legalMovesCount = 1)
                                           THEN pvUpdate(@, f.ply, f.m) ELSE @],
                       IF tmp > f.alpha
                         THEN [f EXCEPT !.alpha = tmp, !.entryType = EXACT, !.bestMove = f.m]
                         ELSE f)

\* variant that returns as soon as it sees the flag, the move still made
searchAfterMove_noUnmake(M, f, tmp) ==
  searchUnmade(IF M.stop THEN M ELSE [M EXCEPT !.board = unmakeMove(@, f.m)], f, tmp)

\* lines 431-468: the search of the move has given tmp
searchAfterMove(M, f, tmp) ==
  searchUnmade([M EXCEPT !.board = unmakeMove(@, f.m)], f, tmp)

\* lines 424-428: is the move searched again: after a reduced search that raised alpha,
\* with the full window in a PV node
searchAgain(f, tmp) == f.pc = "zw" /\ tmp > f.alpha /\ f.reduction # 0

searchFullWindow(f, tmp) ==
  f.pc \in {"zw", "lmr"} /\ f.NT = PV /\ tmp > f.alpha /\ tmp < f.beta

\* lines 334-344: the killers of ply + 2, move generation and the picker
searchStartLoop(M, f) ==
  LET ss == tablePut(M.ss, f.ply + 2, SearchStack)
  IN searchLoop([M EXCEPT !.ss = ss],
                [f EXCEPT !.legalMovesCount = 0, !.quietMovesCount = 0, !.entryType = ALPHA,
                          !.bestMove = nullMove,
                          !.picker = MovePicker(M.board, generateMoves(M.board, ALL_MOVES, <<>>),
                                                f.tableMove, tableAt(ss, f.ply, SearchStack),
                                                M.successes, M.tries)])

\* lines 324-325: internal iterative deepening
searchIID(M, f) ==
  IF f.tableMove = nullMove /\ f.depth > 6
    THEN calls(M, f, "iid", Call("search", f.NT, f.alpha, f.beta, f.depth - 6, f.ply, 0))
    ELSE searchStartLoop(M, f)

\* lines 287-293
nullMoveR(depth, staticEval, beta) ==
  Max(0, NULLMOVE_DEPTH_REDUCTION_BASE
         + (depth - MIN_NULLMOVE_DEPTH) \div NULLMOVE_HIGH_DEPTH_DENOMINATOR
         + Max((staticEval - beta) \div NULLMOVE_BETA_DIFFERENCE_DENOMINATOR, 0))

\* lines 299-318: the stop check, the cut by the null move, its verification
searchNullUnmade(M, f, tmp) ==
  IF M.stop THEN returns(M, f.alpha)
  ELSE IF tmp < f.beta THEN searchIID(M, f)
  ELSE IF f.depth >= MIN_NULLMOVE_VERIFICATION_DEPTH
    THEN calls(M, [f EXCEPT !.tmp = IF isMateValue(tmp) THEN f.beta ELSE tmp], "verify",
               Call("search", NON_PV, f.beta - 1, f.beta, f.depth - f.R, f.ply, 0))
  ELSE returns(M, IF isMateValue(tmp) THEN f.beta ELSE tmp)

\* lines 297-318: the search of the null move has returned value
searchAfterNull(M, f, value) ==
  searchNullUnmade([M EXCEPT !.board = unmakeNullMove(@)], f, -value)

\* lines 308-314: the verification search has returned value
searchAfterVerification(M, f, value) ==
  IF value >= f.beta THEN returns(M, f.tmp) ELSE searchIID(M, f)

\* lines 326-329: the search of internal iterative deepening has returned
searchAfterIID(M, f) ==
  searchStartLoop(M, IF pvAt(M.pvs, f.ply) # <<>> THEN [f EXCEPT !.tableMove = pvAt(M.pvs, f.ply)[1]]
                     ELSE f)

\* lines 263-298: futility pruning and the null move, in nodes that are neither PV nodes
\* nor in check
searchPrune(M, f, pruned, R) ==
  IF pruned /\ f.depth <= 4 /\ f.staticEval <= f.alpha - FUTILITY_MARGIN[f.depth + 1]
    THEN tailCalls(M, Call("quiescence", PV, f.alpha, f.beta, 0, f.ply, 0))
  ELSE IF pruned /\ f.depth <= 4 /\ f.staticEval >= f.beta + FUTILITY_MARGIN[f.depth + 1]
    THEN returns(M, f.beta)
  ELSE IF /\ pruned
          /\ f.staticEval >= f.beta
          /\ f.depth >= MIN_NULLMOVE_DEPTH
          /\ hasNonPawns(M.board, M.board.m_side)
    THEN calls([M EXCEPT !.board = makeNullMove(@)], [f EXCEPT !.R = R], "null",
               Call("search", NON_PV, -f.beta, -f.beta + 1, f.depth - R, f.ply + 1, 0))
  ELSE searchIID(M, f)

\* lines 262-266: the check, the static evaluation
searchEvaluated(M, f, pruned) ==
  searchPrune(M, f, pruned, IF pruned THEN nullMoveR(f.depth, f.staticEval, f.beta) ELSE 0)

searchPrunings(M, f, inCheck) ==
  searchEvaluated(M, [f EXCEPT !.isInCheck = inCheck,
                               !.staticEval = IF f.NT # PV /\ ~inCheck THEN eval(M.board, Z) ELSE 0],
                  f.NT # PV /\ ~inCheck)

\* lines 228-257: the probe of the transposition table
searchTable(M, f, slot, entry) ==
  IF slot # "nullptr" /\ entryUsable(entry, f.depth, f.ply, f.NT) /\ getBoundType(entry) = EXACT
    THEN returns(M, probedValue(entry, f.ply))
  ELSE IF /\ slot # "nullptr"
          /\ entryUsable(entry, f.depth, f.ply, f.NT)
          /\ getBoundType(entry) = ALPHA
          /\ probedValue(entry, f.ply) <= f.alpha
    THEN returns(M, f.alpha)
  ELSE IF /\ slot # "nullptr"
          /\ entryUsable(entry, f.depth, f.ply, f.NT)
          /\ getBoundType(entry) = BETA
          /\ probedValue(entry, f.ply) >= f.beta
    THEN returns(M, f.beta)
  ELSE searchPrunings(M, [f EXCEPT !.tableMove = IF slot = "nullptr" THEN nullMove ELSE entry.move],
                      isInCheck(M.board))

\* line 228: the probe
searchProbed(M, f, hash, slot) ==
  searchTable(M, f, slot, IF slot = "nullptr" THEN TableEntry ELSE M.table[hash % s_tableSize][slot])

\* lines 203-228: the draw, the maximal ply, mate distance pruning
searchNode(M, f, hash) ==
  IF isDraw(M.board, f.ply) THEN returns(M, 0)
  ELSE IF f.ply > MAX_DEPTH THEN returns(M, f.alpha)
  ELSE IF f.NT # PV /\ Max(f.alpha, I16(-MATE + f.ply)) >= Min(f.beta, I16(MATE - f.ply))
    THEN returns(M, Max(f.alpha, I16(-MATE + f.ply)))
  ELSE searchProbed(M, [f EXCEPT !.alpha = IF f.NT # PV THEN Max(@, I16(-MATE + f.ply)) ELSE @,
                                 !.beta = IF f.NT # PV THEN Min(@, I16(MATE - f.ply)) ELSE @],
                    hash, probe(M.table, hash))

\* lines 176-201: search is entered with the call c
searchEntry(M, c, poll) ==
  IF c.depth <= 0 THEN tailCalls(M, Call("quiescence", c.NT, c.alpha, c.beta, 0, c.ply, 0))
  ELSE IF M.stop THEN returns(M, c.alpha)
  ELSE IF poll = "limit" THEN returns([M EXCEPT !.stop = TRUE], c.alpha)
  ELSE searchNode([M EXCEPT !.stop = (poll = "input"), !.pvs = tablePut(@, c.ply, <<>>)],
                  Frame(c), hashNumber(computeHash(M.board)))

\* an invocation of search goes on after the search it called returned value
searchResumed(M, f, value) ==
  IF f.pc = "null" THEN searchAfterNull(M, f, value)
  ELSE IF f.pc = "verify" THEN searchAfterVerification(M, f, value)
  ELSE IF f.pc = "iid" THEN searchAfterIID(M, f)
  ELSE IF searchAgain(f, -value)
    THEN calls(M, f, "lmr", childCall(f, NON_PV, -f.alpha - 1, -f.alpha, f.depth - 1))
  ELSE IF searchFullWindow(f, -value)
    THEN calls(M, f, "pvs", childCall(f, PV, -f.beta, -f.alpha, f.depth - 1))
  ELSE searchAfterMove(M, f, -value)


(***************************************************************************)
(* rootSearch with search and quiescence run on the board                  *)
(***************************************************************************)
\* the depth limit of the search
MaxSearchDepth == 10

SearchFEN2 == <<"1", "n", "5", "k", "/", "7", "p", "/", "7", "P", "/", "8", "/", "8", "/", "1", "p", "5", "p",
                "/", "7", "P", "/", "N", "6", "K", " ", "w", " ", "-", " ", "-", " ", "0", " ", "1">>

SearchFENs == {SearchFEN, SearchFEN2}

SearchInit == \E fen \in SearchFENs : RootEntered(fen, MaxSearchDepth)

\* the state after a run of search or quiescence; `through` tells the places of the
\* invocations that were waiting for a child when the flag was set
Ran(M, fn, ply, through) ==
  /\ g_board' = M.board
  /\ g_mustStop' = M.stop
  /\ g_PVs' = M.pvs
  /\ s_table' = M.table
  /\ ttWritten' = M.written
  /\ s_historyTries' = M.tries
  /\ s_historySuccesses' = M.successes
  /\ g_searchStacks' = M.ss
  /\ g_nodesCount' = M.nodes
  /\ stack' = M.stack
  /\ link' = M.link
  /\ trace' = IF M.stop /\ ~g_mustStop
                THEN [trace EXCEPT !.stopDepth = g_rootDepth,
                                   !.stopAt = {[fn |-> fn, ply |-> ply, through |-> through,
                                                went |-> M.link.kind]}]
                ELSE trace
  /\ UNCHANGED <<g_moveHistory, g_fen, pending, snapshot, s_rootAge, g_rootDepth, g_limits, rs>>
  /\ UNCHANGED <<seeVars, otherVars>>

\* where the invocations that wait for a child are
waiting == {stack[i].pc : i \in 1..Len(stack)}

\* search is entered and runs to its first call or to its return
SearchEntered ==
  /\ rs.pc = "call"
  /\ link.kind = "call"
  /\ link.fn = "search"
  /\ \E poll \in Polls(g_nodesCount) :
       Ran(searchEntry(Machine, link, poll), "search", link.ply, waiting)

\* quiescence is entered and runs to its first call or to its return
QuiescenceEntered ==
  /\ rs.pc = "call"
  /\ link.kind = "call"
  /\ link.fn = "quiescence"
  /\ \E poll \in Polls(g_nodesCount) :
       Ran(quiescenceEntry(Machine, link, poll), "quiescence", link.ply, waiting)

\* the search called by an invocation of search has returned
SearchResumed ==
  /\ link.kind = "ret"
  /\ stack # <<>>
  /\ stack[Len(stack)].fn = "search"
  /\ Ran(searchResumed([Machine EXCEPT !.stack = SubSeq(stack, 1, Len(stack) - 1)],
                       stack[Len(stack)], link.value),
         "search", stack[Len(stack)].ply, waiting)

\* the quiescence called by an invocation of quiescence has returned
QuiescenceResumed ==
  /\ link.kind = "ret"
  /\ stack # <<>>
  /\ stack[Len(stack)].fn = "quiescence"
  /\ Ran(quiescenceAfterMove([Machine EXCEPT !.stack = SubSeq(stack, 1, Len(stack) - 1)],
                             stack[Len(stack)], link.value),
         "quiescence", stack[Len(stack)].ply, waiting)

SearchNext ==
  \/ RootStart
  \/ RootIterate
  \/ SearchEntered
  \/ QuiescenceEntered
  \/ SearchResumed
  \/ QuiescenceResumed
  \/ RootAfterSearch
SpecSearch == SearchInit /\ [][SearchNext]_vars


(***************************************************************************)
(* The stop flag                                                           *)
(***************************************************************************)
\* an invocation is about to be entered while the flag is set
stoppedCall == g_mustStop /\ rs.pc = "call" /\ link.kind = "call"

\* rootSearch has returned because of the flag
stoppedReturn == g_mustStop /\ rs.pc = "returned"

\* an invocation entered while the flag is set returns its alpha at once (search of no
\* depth hands over to quiescence, which does), and it changes nothing
ReturnsAtOnce ==
  stoppedCall =>
    /\ g_board' = g_board
    /\ stack' = stack
    /\ g_nodesCount' = g_nodesCount
    /\ s_table' = s_table
    /\ g_PVs' = g_PVs
    /\ IF link.fn = "search" /\ link.depth <= 0
         THEN link'.kind = "call" /\ link'.fn = "quiescence" /\ link'.alpha = link.alpha
         ELSE link' = Return(link.alpha)

BoardRestored == rs.pc = "returned" => g_board = snapshot

\* rootSearch returned after the flag was set in a quiescence that a verification search
\* led to, moves made in search and in quiescence on the way
StoppedInVerification ==
  /\ stoppedReturn
  /\ \E s \in trace.stopAt :
       s.fn = "quiescence" /\ s.ply >= 2 /\ {"first", "verify", "q"} \subseteq s.through
  /\ g_board = snapshot

(***************************************************************************)
(* The reduction of the null move                                          *)
(***************************************************************************)
\* the invocations of search that wait for the search of their null move
nullMoveFrames == {i \in 1..Len(stack) : stack[i].pc = "null"}

\* invocation i has just called search
justCalled(i) == i = Len(stack) /\ link.kind = "call" /\ link.fn = "search"

\* C21: the null move of a node with remaining depth d, static evaluation s and bound
\* beta is searched with the reduction R = 3 + (d - 2) / 5 + min(0, (s - beta) / 300),
\* to depth d - R.
NullMoveReductionTakesMin ==
  \A i \in nullMoveFrames :
    /\ stack[i].R = 3 + (stack[i].depth - 2) \div 5
                      + Min(0, truncDiv(stack[i].staticEval - stack[i].beta, 300))
    /\ justCalled(i) => link.depth = stack[i].depth - stack[i].R

\* the reduction of the code: R = max(0, 3 + (d - 2) / 5 + max((s - beta) / 300, 0))
NullMoveReductionTakesMax ==
  \A i \in nullMoveFrames :
    /\ stack[i].R = Max(0, 3 + (stack[i].depth - 2) \div 5
                             + Max(truncDiv(stack[i].staticEval - stack[i].beta, 300), 0))
    /\ justCalled(i) => link.depth = stack[i].depth - stack[i].R


(***************************************************************************)
(* Transposition table: the replacement policy of tryRecord                *)
(***************************************************************************)
Clusters == 0..(s_tableSize - 1)

\* the entry types search records: a bound kind, with or without the PV flag
BoundTypes == {bound + pv : bound \in {EXACT, BETA, ALPHA}, pv \in {NON_PV, PV}}

\* search: tryRecord of an ordinary value with any entry type
RecordBound ==
  /\ \E type \in BoundTypes, hash \in 1..MaxHash, depth \in 1..MaxTTDepth, ply \in 0..MaxTTPly :
     \E age \in s_rootAge..(s_rootAge + ply) :
       /\ s_table' = tryRecord(s_table, s_rootAge, type, hash, nullMove, 50, age, depth, ply)
       /\ ttWritten' =
            IF recordedSlot(s_table, s_rootAge, type, hash, depth) = "nullptr" THEN ttWritten
            ELSE [ttWritten EXCEPT ![hash % s_tableSize][recordedSlot(s_table, s_rootAge, type, hash, depth)] =
                    [value |-> 50, ply |-> ply]]
  /\ UNCHANGED s_rootAge
  /\ UNCHANGED exceptTT

PolicyNext == SetRootAge \/ RecordBound
SpecPolicy == TTInit /\ [][PolicyNext]_vars

\* the main entry of cluster i is in use and younger than the root
keptByAge(i) == s_table[i].mainEntry.type # 0 /\ s_table[i].mainEntry.age > s_rootAge

\* a step writes another entry of the same depth over the main entry of cluster i
sameDepthOverwrite(i) ==
  /\ s_table'[i].mainEntry # s_table[i].mainEntry
  /\ s_table'[i].mainEntry.depth = s_table[i].mainEntry.depth

\* C22: tryRecord never overwrites a non-empty main entry that is not aged with a new
\* entry of the same depth unless the PV status of the new entry is at least the old
\* one's and its bound is at least as tight (EXACT tighter than BETA tighter than ALPHA).
SameDepthKeepsTighterBound ==
  [][\A i \in Clusters :
       (keptByAge(i) /\ sameDepthOverwrite(i)) =>
          /\ bitAnd(s_table'[i].mainEntry.type, PV) >= bitAnd(s_table[i].mainEntry.type, PV)
          /\ getBoundType(s_table'[i].mainEntry) <= getBoundType(s_table[i].mainEntry)]_vars

\* what the condition of the code keeps: the PV status
SameDepthKeepsPV ==
  [][\A i \in Clusters :
       (keptByAge(i) /\ sameDepthOverwrite(i)) =>
          bitAnd(s_table'[i].mainEntry.type, PV) >= bitAnd(s_table[i].mainEntry.type, PV)]_vars

\* C23: after any sequence of tryRecord calls on an empty table no cluster holds the
\* same non-zero hash in its main and in its auxiliary entry.
NoHashInBothSlots ==
  \A i \in Clusters :
    s_table[i].mainEntry.hash # 0 => s_table[i].auxEntry.hash # s_table[i].mainEntry.hash


(***************************************************************************)
(* The cut of the move loop                                                *)
(***************************************************************************)
\* the invocation of search that waits for the search of a move
top == stack[Len(stack)]

\* the search of a move returns, is not repeated, and its value raises alpha to beta or more
cutByMove ==
  /\ link.kind = "ret"
  /\ stack # <<>>
  /\ top.fn = "search"
  /\ top.pc \in {"first", "zw", "lmr", "pvs"}
  /\ ~g_mustStop
  /\ ~searchAgain(top, -link.value)
  /\ ~searchFullWindow(top, -link.value)
  /\ -link.value > top.alpha
  /\ -link.value >= top.beta

\* every entry of the table the step writes is a BETA bound
writesBetaOnly ==
  \A i \in Clusters : \A slot \in {"mainEntry", "auxEntry"} :
    s_table'[i][slot] # s_table[i][slot] => getBoundType(s_table'[i][slot]) = BETA

\* C24: when a move of the move loop raises alpha to a value >= beta, the node records
\* a BETA entry in the table and the value search returns for the node is exactly beta.
CutReturnsBeta ==
  [][cutByMove => /\ writesBetaOnly
                  /\ link' = Return(top.beta)]_vars

\* the value the code returns at a cut: the value of the move, beta or more
CutReturnsValueOfMove ==
  [][cutByMove => /\ writesBetaOnly
                  /\ link' = Return(-link.value)]_vars


(***************************************************************************)
(* The history tables during iterative deepening                           *)
(***************************************************************************)
\* rootSearch goes on to the iteration of the next root depth
advancesRootDepth == rs.pc = "loop" /\ rs'.pc = "call" /\ g_rootDepth' = g_rootDepth + 1

\* C25: the history tables are all zero after newGame, and within one rootSearch every
\* entry of both is shifted right by 3 each time the iterative deepening advances to a
\* new root depth.
HistoryShiftedOnEveryRootDepth ==
  /\ (rs.pc = "start" => \A i \in DOMAIN s_historyTries \cup DOMAIN s_historySuccesses :
                           tableAt(s_historyTries, i, 0) = 0 /\ tableAt(s_historySuccesses, i, 0) = 0)
  /\ [][advancesRootDepth =>
          /\ s_historyTries' = resetHistoryTable(s_historyTries)
          /\ s_historySuccesses' = resetHistoryTable(s_historySuccesses)]_vars

\* the code shifts the tables in the initialisation of rootSearch only: the iterations
\* of one rootSearch go on with the tables of the iteration before
HistoryKeptBetweenRootDepths ==
  [][advancesRootDepth =>
       /\ s_historyTries' = s_historyTries
       /\ s_historySuccesses' = s_historySuccesses]_vars


(***************************************************************************)
(* evalSide: the rook behind a passed pawn                                 *)
(***************************************************************************)
\* eval(board) goes through evalSide<WHITE> and evalSide<BLACK>
reachesEvalSide(b) ==
  /\ hasNonPawns(b, WHITE) \/ hasNonPawns(b, BLACK)
  /\ ~isDrawishEndgame(b)
  /\ materialByColor(b, WHITE) # 0
  /\ materialByColor(b, BLACK) # 0

\* the passed pawns of Side evalSide<Side> goes through
passedPawnsOf(b, Side) == getOrScanPHE(b, Z).passed \cap byPiece(b, Piece(Side, PAWN))

\* the squares of the file of sq behind sq, seen from Side
squaresBehind(Side, sq) ==
  {t \in Squares : /\ getFile(t) = getFile(sq)
                   /\ IF Side = WHITE THEN getRank(t) < getRank(sq) ELSE getRank(t) > getRank(sq)}

\* the squares strictly between two squares of one file
strictlyBetween(a, b) ==
  {t \in Squares : /\ getFile(t) = getFile(a)
                   /\ Min(getRank(a), getRank(b)) < getRank(t)
                   /\ getRank(t) < Max(getRank(a), getRank(b))}

\* a rook of Side stands behind the pawn on sq on its file, nothing between the two
chessRookBehind(b, Side, sq) ==
  \E r \in squaresBehind(Side, sq) :
    /\ b.m_board[r] = Piece(Side, ROOK)
    /\ \A t \in strictlyBetween(r, sq) : b.m_board[t] = NONE

\* C26: in evalSide a side gets ROOK_BEHIND_PASSED_PAWN for each of its passed pawns
\* with a friendly rook behind it on its file and no piece on the squares strictly
\* between the rook and the pawn.
RookBehindPassedPawnRewarded ==
  (evalCall.kind = "eval" /\ reachesEvalSide(g_board)) =>
    \A Side \in Colors : \A sq \in passedPawnsOf(g_board, Side) :
      chessRookBehind(g_board, Side, sq) =>
        evalSidePassed(g_board, Side, sq)
          \in {ROOK_BEHIND_PASSED_PAWN, scoreAdd(ROOK_BEHIND_PASSED_PAWN, MINOR_PASSED_BLOCKED)}

\* betweenBits(sq, rookSq) holds rookSq, the square of the rook: the code never finds
\* the squares free and gives the bonus for no pawn
RookBehindPassedPawnNeverRewarded ==
  (evalCall.kind = "eval" /\ reachesEvalSide(g_board)) =>
    \A Side \in Colors : \A sq \in passedPawnsOf(g_board, Side) :
      evalSidePassed(g_board, Side, sq) \in {Z, MINOR_PASSED_BLOCKED}


(***************************************************************************)
(* The bishop pair                                                         *)
(***************************************************************************)
\* the light and the dark squares of the board: a1 is dark
lightSquares == {sq \in Squares : (getFile(sq) + getRank(sq)) % 2 = 1}
darkSquares == {sq \in Squares : (getFile(sq) + getRank(sq)) % 2 = 0}

\* a side has a bishop on a light and a bishop on a dark square
chessBishopPair(b, c) ==
  bishops(b, c) \cap lightSquares # {} /\ bishops(b, c) \cap darkSquares # {}

\* C27: hasDifferentColoredBishops(c), and with it the bishop-pair bonus of evalSide, is
\* true if and only if side c has a bishop on a light square and a bishop on a dark
\* square, wherever the bishops stand.
BishopPairIffBothSquareColours ==
  evalCall.kind = "eval" =>
    \A c \in Colors : hasDifferentColoredBishops(g_board, c) <=> chessBishopPair(g_board, c)

\* the masks of fromColor are wrong on the a-file only: with no bishop there the test
\* is the test of the two square colours
BishopPairOffTheAFile ==
  evalCall.kind = "eval" =>
    \A c \in Colors :
      (\A sq \in bishops(g_board, c) : getFile(sq) # 0) =>
        (hasDifferentColoredBishops(g_board, c) <=> chessBishopPair(g_board, c))


(***************************************************************************)
(* The pawn islands                                                        *)
(***************************************************************************)
\* eval(board) scans the pawns of the board
scansPawns(b) ==
  /\ byPiece(b, Piece(WHITE, PAWN)) \cup byPiece(b, Piece(BLACK, PAWN)) # {}
  /\ \/ ~hasNonPawns(b, WHITE) /\ ~hasNonPawns(b, BLACK)
     \/ reachesEvalSide(b)

\* the files that hold a pawn of the set
pawnFiles(pawns) == {getFile(sq) : sq \in pawns}

\* the number of maximal groups of adjacent files that hold a pawn
chessIslands(pawns) == Cardinality({f \in pawnFiles(pawns) : f + 1 \notin pawnFiles(pawns)})

\* C28: for every pawn configuration of a side the islandsCount of scanPawns is the
\* number of maximal groups of adjacent files with a pawn of the side: it is at most 4,
\* and PAWN_ISLANDS[islandsCount] is inside the table of 5 elements.
IslandsCountIsNumberOfIslands ==
  (evalCall.kind = "eval" /\ scansPawns(g_board)) =>
    \A Side \in Colors :
      /\ islandsCountOf(byPiece(g_board, Piece(Side, PAWN))) = chessIslands(byPiece(g_board, Piece(Side, PAWN)))
      /\ islandsCountOf(byPiece(g_board, Piece(Side, PAWN))) <= 4
      /\ islandsCountOf(byPiece(g_board, Piece(Side, PAWN))) + 1 \in DOMAIN PAWN_ISLANDS

\* the count is right for a side without two pawns on one file
IslandsCountWithoutDoubledPawns ==
  (evalCall.kind = "eval" /\ scansPawns(g_board)) =>
    \A Side \in Colors :
      Cardinality(pawnFiles(byPiece(g_board, Piece(Side, PAWN)))) = Cardinality(byPiece(g_board, Piece(Side, PAWN)))
        => islandsCountOf(byPiece(g_board, Piece(Side, PAWN))) = chessIslands(byPiece(g_board, Piece(Side, PAWN)))


(***************************************************************************)
(* Limits: the time control                                                *)
(***************************************************************************)
\* the largest number of moves of a control sent by level or by movestogo
MaxControlMoves == 3

\* the times in milliseconds sent as base time, as increment and as time left
BaseTimes == {0, 60000}
IncTimes == {0, 1000}
TimesLeft == {0, 30000}

\* Limits as constructed; a break is <<>> when it is INT64_MAX (never) and <<ms>>
\* when it is m_start + ms
Limits ==
  [m_softBreak |-> <<>>, m_hardBreak |-> <<>>, m_timeControlMoves |-> 0, m_movesMade |-> 0,
   m_baseTime |-> 60000, m_incTime |-> 3000, m_depthLimit |-> 99]

LimitsInit ==
  /\ PlayIdle /\ TTIdle /\ SEEIdle /\ OtherIdle
  /\ g_limits = Limits
  /\ g_mustStop = FALSE
  /\ g_rootDepth = 0
  /\ g_nodesCount = 0
  /\ g_searchStacks = <<>>
  /\ g_PVs = <<>>
  /\ s_historyTries = <<>>
  /\ s_historySuccesses = <<>>
  /\ rs = RootLocals
  /\ stack = <<>>
  /\ link = NoLink
  /\ trace = [completed |-> SearchResult, stopDepth |-> 0, stopAt |-> {}]

\* the variables no call of Limits touches, lastCall apart
exceptLimits ==
  <<playVars, ttVars, seeVars, perftVars, evalVars, engineVars, g_mustStop, g_rootDepth, g_nodesCount,
    g_searchStacks, g_PVs, s_historyTries, s_historySuccesses, rs, stack, link, trace>>

\* setTimeLimits(control, secondsBase, secondsInc)
SetTimeLimits ==
  /\ \E control \in 0..MaxControlMoves, base \in BaseTimes, inc \in IncTimes :
       /\ g_limits' = [g_limits EXCEPT !.m_timeControlMoves = control,
                                       !.m_baseTime = (base \div 1000) * 1000,
                                       !.m_incTime = (inc \div 1000) * 1000]
       /\ lastCall' = [kind |-> "setTimeLimits"]
  /\ UNCHANGED exceptLimits

\* setTimeLimitsInMs(control, secondsBase, secondsInc)
SetTimeLimitsInMs ==
  /\ \E control \in 0..MaxControlMoves, base \in BaseTimes, inc \in IncTimes :
       /\ g_limits' = [g_limits EXCEPT !.m_timeControlMoves = control, !.m_baseTime = base,
                                       !.m_incTime = inc]
       /\ lastCall' = [kind |-> "setTimeLimitsInMs"]
  /\ UNCHANGED exceptLimits

\* addMoves(1): m_movesMade is an i32 and m_timeControlMoves a u32, the counter is not
\* negative and the remainder is the remainder of the naturals
AddMoves ==
  /\ g_limits' = IF g_limits.m_timeControlMoves # 0
                   THEN [g_limits EXCEPT !.m_movesMade = (@ + 1) % g_limits.m_timeControlMoves]
                   ELSE g_limits
  /\ lastCall' = [kind |-> "addMoves"]
  /\ UNCHANGED exceptLimits

\* what the division of computeConventionalTimeLimits gives.  The divisor is the u32
\* m_timeControlMoves - m_movesMade: it is 2^32 + difference when the difference is
\* negative, more than any time left here, and the quotient is 0; a divisor of 0 is
\* undefined behaviour, any quotient
UndefinedQuotients == {0, 1}
conventionalQuotients(msLeft, difference) ==
  IF difference > 0 THEN {msLeft \div difference}
  ELSE IF difference < 0 THEN {0}
  ELSE UndefinedQuotients

GAME_LENGTH_FACTOR == 40

\* msPerMove of reset(msLeft), with the quotient of the conventional control
msPerMove(l, msLeft, quotient) ==
  IF l.m_timeControlMoves # 0 /\ l.m_baseTime # 0
    THEN (IF msLeft # 0 THEN Min(quotient + l.m_incTime, msLeft)
          ELSE l.m_baseTime \div l.m_timeControlMoves + l.m_incTime)
  ELSE IF msLeft # 0 THEN Min(l.m_incTime + msLeft \div GAME_LENGTH_FACTOR, msLeft)
  ELSE l.m_incTime + l.m_baseTime \div GAME_LENGTH_FACTOR

\* which of the three computations reset chooses
limitsKind(l) ==
  IF l.m_timeControlMoves # 0 /\ l.m_baseTime # 0 THEN "conventional"
  ELSE IF l.m_baseTime # 0 THEN "incremental"
  ELSE IF l.m_incTime # 0 THEN "exact"
  ELSE "none"

\* reset(msLeft) with g_isPlayingAgainstSelf false
resetLimits(l, msLeft, quotient) ==
  IF limitsKind(l) \in {"conventional", "incremental"}
    THEN [l EXCEPT !.m_softBreak = <<msPerMove(l, msLeft, quotient) \div 2>>,
                   !.m_hardBreak = <<(msPerMove(l, msLeft, quotient) * 9) \div 10>>]
  ELSE IF limitsKind(l) = "exact"
    THEN [l EXCEPT !.m_softBreak = <<((IF msLeft # 0 THEN msLeft ELSE l.m_incTime) * 9) \div 10>>,
                   !.m_hardBreak = <<((IF msLeft # 0 THEN msLeft ELSE l.m_incTime) * 95) \div 100>>]
  ELSE l

\* reset(msLeft)
Reset ==
  /\ \E msLeft \in TimesLeft :
     \E quotient \in conventionalQuotients(msLeft, g_limits.m_timeControlMoves - g_limits.m_movesMade) :
       /\ g_limits' = resetLimits(g_limits, msLeft, quotient)
       /\ lastCall' = [kind |-> "reset", computed |-> limitsKind(g_limits), msLeft |-> msLeft,
                       m_movesMade |-> g_limits.m_movesMade,
                       m_timeControlMoves |-> g_limits.m_timeControlMoves]
  /\ UNCHANGED exceptLimits

LimitsNext == SetTimeLimits \/ SetTimeLimitsInMs \/ AddMoves \/ Reset
SpecLimits == LimitsInit /\ [][LimitsNext]_vars

\* reset has computed msLeft / (m_timeControlMoves - m_movesMade)
resetDivided ==
  lastCall.kind = "reset" /\ lastCall.computed = "conventional" /\ lastCall.msLeft # 0

\* C29: after any sequence of setTimeLimits, setTimeLimitsInMs, addMoves(1) and reset
\* calls, whenever reset computes msLeft / (m_timeControlMoves - m_movesMade) the counter
\* satisfies 0 <= m_movesMade < m_timeControlMoves: the divisor is at least 1.
ResetDivisorAtLeastOne ==
  resetDivided => /\ 0 <= lastCall.m_movesMade
                  /\ lastCall.m_movesMade < lastCall.m_timeControlMoves

\* the counter is below the control after addMoves, and never negative
MovesMadeBelowControlAfterAddMoves ==
  /\ g_limits.m_movesMade >= 0
  /\ (lastCall.kind = "addMoves" /\ g_limits.m_timeControlMoves # 0)
        => g_limits.m_movesMade < g_limits.m_timeControlMoves


(***************************************************************************)
(* The move rootSearch returns                                             *)
(***************************************************************************)
\* the legal moves of the root position
rootLegalMoves == {m \in movesOf(snapshot, ALL_MOVES) : isLegal(snapshot, m)}

\* C30: when the root position has a legal move, the move rootSearch returns is a legal
\* move of the root position and never the null move, however the search ends.
RootSearchReturnsLegalMove ==
  (rs.pc = "returned" /\ rootLegalMoves # {}) =>
    /\ rs.returned.best # nullMove
    /\ rs.returned.best \in rootLegalMoves

\* the move returned is legal once the iteration of depth 1 has been completed
RootSearchReturnsLegalMoveAfterDepthOne ==
  (rs.pc = "returned" /\ rootLegalMoves # {} /\ g_rootDepth >= 2) =>
    /\ rs.returned.best # nullMove
    /\ rs.returned.best \in rootLegalMoves

====
